---- MODULE Spec2Model ----
(***************************************************************************)
(* Model of niri's configuration core (niri-config).                       *)
(*                                                                         *)
(* Text is modelled as a sequence of one-character strings, so that        *)
(* splitting, trimming and case folding are computed on the characters as  *)
(* the Rust code computes them.                                            *)
(***************************************************************************)
EXTENDS Integers, Sequences, FiniteSets, TLC

VARIABLES
    parsed,      \* Key::from_str: the key-combo strings parsed so far, with results
    children,    \* Binds::decode_node: the child nodes the `for` loop has consumed
    decoded,     \* Binds::decode_node: what Bind::decode_node returned for each child
    seen_keys,   \* Binds::decode_node: `seen_keys`
    binds,       \* Binds::decode_node: `binds`
    errors,      \* knus Context: the diagnostics collected by ctx.emit_error
    translated,  \* Action::from(niri_ipc::Action): the wire actions translated so far
    config,      \* the Full value of every config section
    config_before, \* the Full values before the last merge_with
    merged_parts, \* the Parts merged so far, in file-inclusion order
    rule,        \* a window or layer rule: its kind and the Match entries decoded so far
    resolved,    \* the candidates the rule was tried on, with the outcome
    mod_parsed,  \* ModKey::from_str: the strings parsed so far, with results
    scrolled, \* ScrollFactor::h_v_factors: the values it was called on, with results
    binding, \* OrgKdePlasmaWindowManagementState.binding
    windows, \* OrgKdePlasmaWindowManagementState.windows
    connected, \* the Wayland clients that are connected
    live_bindings, \* the OrgKdePlasmaWindowManagement resources that are alive
    mapped_windows, \* what get_windows() returns
    posted_errors, \* the protocol errors posted so far
    next_binding, \* the number of bind requests handled
    registered, \* which of the two modules serves the kde_output_order_v1 global
    bindings, \* kde_output_order.rs: KdeOutputOrderV1State.bindings
    instances, \* kde_outputorder.rs: KdeOutputOrderV1State.instances
    output_order, \* KdeOutputOrderV1State.output_order
    sent, \* the events the last handler sent, per resource
    order_resources, \* the KdeOutputOrderV1 resources bound and not destroyed
    order_next, \* the number of bind requests handled
    order_last, \* the request handled last
    region, \* the Region built so far, None before it is constructed
    region_ops, \* the number of add_rect and subtract_rect calls made
    rules, \* MappedLayer.rules, None before the layer is mapped
    computed, \* what ResolvedLayerRules::compute returned last
    last_call, \* the method of MappedLayer called last, with its argument and the rules before it
    mod_key_call \* the last call of Backend::mod_key: the backend, the config and the ModKey returned

keyVars  == <<parsed>>
bindVars == <<children, decoded, seen_keys, binds, errors>>
ipcVars  == <<translated>>
mergeVars == <<config, config_before, merged_parts>>
ruleVars == <<rule, resolved>>
modKeyVars == <<mod_parsed>>
scrollVars == <<scrolled>>
kdeWmVars == <<binding, windows, connected, live_bindings, mapped_windows, posted_errors, next_binding>>
orderVars == <<registered, bindings, instances, output_order, sent, order_resources, order_next, order_last>>
regionVars == <<region, region_ops>>
layerVars == <<rules, computed, last_call>>
backendVars == <<mod_key_call>>
vars     == <<parsed, children, decoded, seen_keys, binds, errors, translated,
              config, config_before, merged_parts, rule, resolved, mod_parsed,
              scrolled,
              binding, windows, connected, live_bindings, mapped_windows, posted_errors, next_binding,
              registered, bindings, instances, output_order, sent, order_resources, order_next, order_last,
              region, region_ops,
              rules, computed, last_call,
              mod_key_call>>

\* The variables an operation of one component leaves alone.
notKeyVars    == <<bindVars, ipcVars, mergeVars, ruleVars, modKeyVars, scrollVars, kdeWmVars, orderVars, regionVars, layerVars, backendVars>>
notBindVars   == <<keyVars, ipcVars, mergeVars, ruleVars, modKeyVars, scrollVars, kdeWmVars, orderVars, regionVars, layerVars, backendVars>>
notIpcVars    == <<keyVars, bindVars, mergeVars, ruleVars, modKeyVars, scrollVars, kdeWmVars, orderVars, regionVars, layerVars, backendVars>>
notMergeVars  == <<keyVars, bindVars, ipcVars, ruleVars, modKeyVars, scrollVars, kdeWmVars, orderVars, regionVars, layerVars, backendVars>>
notRuleVars   == <<keyVars, bindVars, ipcVars, mergeVars, modKeyVars, scrollVars, kdeWmVars, orderVars, regionVars, layerVars, backendVars>>
notModKeyVars == <<keyVars, bindVars, ipcVars, mergeVars, ruleVars, scrollVars, kdeWmVars, orderVars, regionVars, layerVars, backendVars>>
notScrollVars == <<keyVars, bindVars, ipcVars, mergeVars, ruleVars, modKeyVars, kdeWmVars, orderVars, regionVars, layerVars, backendVars>>
notKdeWmVars == <<keyVars, bindVars, ipcVars, mergeVars, ruleVars, modKeyVars, scrollVars, orderVars, regionVars, layerVars, backendVars>>
notOrderVars == <<keyVars, bindVars, ipcVars, mergeVars, ruleVars, modKeyVars, scrollVars, kdeWmVars, regionVars, layerVars, backendVars>>
notRegionVars == <<keyVars, bindVars, ipcVars, mergeVars, ruleVars, modKeyVars, scrollVars, kdeWmVars, orderVars, layerVars, backendVars>>
notLayerVars == <<keyVars, bindVars, ipcVars, mergeVars, ruleVars, modKeyVars, scrollVars, kdeWmVars, orderVars, regionVars, backendVars>>
notBackendVars == <<keyVars, bindVars, ipcVars, mergeVars, ruleVars, modKeyVars, scrollVars, kdeWmVars, orderVars, regionVars, layerVars>>

\* The state of the components an operation sequence does not touch.
IdleMerge ==
    /\ config = <<>>
    /\ config_before = <<>>
    /\ merged_parts = <<>>

IdleRules ==
    /\ rule = <<>>
    /\ resolved = <<>>

IdleModKey == mod_parsed = {}

IdleParsers ==
    /\ parsed = <<>>
    /\ children = <<>>
    /\ decoded = <<>>
    /\ seen_keys = {}
    /\ binds = <<>>
    /\ errors = <<>>
    /\ translated = {}

IdleScroll ==
    /\ scrolled = {}

IdleKdeWm ==
    /\ binding = <<>>
    /\ windows = <<>>
    /\ connected = {}
    /\ live_bindings = {}
    /\ mapped_windows = <<>>
    /\ posted_errors = <<>>
    /\ next_binding = 0

IdleOrder ==
    /\ registered = ""
    /\ bindings = <<>>
    /\ instances = {}
    /\ output_order = <<>>
    /\ sent = {}
    /\ order_resources = {}
    /\ order_next = 0
    /\ order_last = ""

IdleRegion ==
    /\ region = <<>>
    /\ region_ops = 0

IdleLayer ==
    /\ rules = <<>>
    /\ computed = <<>>
    /\ last_call = <<>>

IdleBackend ==
    /\ mod_key_call = <<>>

(***************************************************************************)
(* Bounds of the model.                                                    *)
(***************************************************************************)
MaxParsed == 2      \* key-combo strings parsed in one behaviour
MaxNodes  == 3      \* sibling bind nodes under one `binds` section

(***************************************************************************)
(* Characters and strings.                                                 *)
(***************************************************************************)
UpperChars == <<"A", "B", "C", "D", "E", "F", "G", "H", "I", "J", "K", "L", "M",
                "N", "O", "P", "Q", "R", "S", "T", "U", "V", "W", "X", "Y", "Z">>
LowerChars == <<"a", "b", "c", "d", "e", "f", "g", "h", "i", "j", "k", "l", "m",
                "n", "o", "p", "q", "r", "s", "t", "u", "v", "w", "x", "y", "z">>

\* u8::to_ascii_lowercase on one character.
to_ascii_lowercase(c) ==
    IF \E i \in 1..26 : UpperChars[i] = c
    THEN LowerChars[CHOOSE i \in 1..26 : UpperChars[i] = c]
    ELSE c

\* str::eq_ignore_ascii_case.
eq_ignore_ascii_case(a, b) ==
    /\ Len(a) = Len(b)
    /\ \A i \in 1..Len(a) : to_ascii_lowercase(a[i]) = to_ascii_lowercase(b[i])

\* str::trim: strips leading and trailing white space.
RECURSIVE trim_start(_)
trim_start(s) ==
    IF s # <<>> /\ Head(s) = " " THEN trim_start(Tail(s)) ELSE s

RECURSIVE trim_end(_)
trim_end(s) ==
    IF s # <<>> /\ s[Len(s)] = " " THEN trim_end(SubSeq(s, 1, Len(s) - 1)) ELSE s

trim(s) == trim_end(trim_start(s))

\* str::split(c): the pieces of s between the occurrences of c (never empty).
RECURSIVE split(_, _)
split(s, c) ==
    IF \E i \in 1..Len(s) : s[i] = c
    THEN LET i == CHOOSE k \in 1..Len(s) : s[k] = c /\ \A j \in 1..(k - 1) : s[j] # c
         IN  <<SubSeq(s, 1, i - 1)>> \o split(SubSeq(s, i + 1, Len(s)), c)
    ELSE <<s>>

(***************************************************************************)
(* bitflags Modifiers : u8.                                                *)
(***************************************************************************)
CTRL             == 1
SHIFT            == 2
ALT              == 4
SUPER            == 8
ISO_LEVEL3_SHIFT == 16
ISO_LEVEL5_SHIFT == 32
COMPOSITOR       == 64

Modifiers_empty == 0

\* Bitwise OR of two flag sets (the `|=` of bitflags).
RECURSIVE BitOr(_, _)
BitOr(a, b) ==
    IF a = 0 THEN b
    ELSE IF b = 0 THEN a
    ELSE (IF a % 2 = 1 \/ b % 2 = 1 THEN 1 ELSE 0) + 2 * BitOr(a \div 2, b \div 2)

(***************************************************************************)
(* xkbcommon's keysym table, as far as the key names used here need it.    *)
(* `lower` marks the keysym a case-insensitive lookup prefers when two     *)
(* names differ only by letter case.                                       *)
(***************************************************************************)
NoSymbol == "NoSymbol"

KeysymTable ==
    { [name |-> <<"a">>, sym |-> "a", lower |-> TRUE],
      [name |-> <<"A">>, sym |-> "A", lower |-> FALSE],
      [name |-> <<"b">>, sym |-> "b", lower |-> TRUE],
      [name |-> <<"B">>, sym |-> "B", lower |-> FALSE],
      [name |-> <<"R", "e", "t", "u", "r", "n">>, sym |-> "Return", lower |-> FALSE],
      [name |-> <<"X", "F", "8", "6", "S", "c", "r", "e", "e", "n", "S", "a", "v", "e", "r">>,
       sym |-> "XF86ScreenSaver", lower |-> FALSE],
      [name |-> <<"X", "F", "8", "6", "S", "c", "r", "e", "e", "n", "s", "a", "v", "e", "r">>,
       sym |-> "XF86Screensaver", lower |-> TRUE] }

KEYSYM_NO_FLAGS         == "NO_FLAGS"
KEYSYM_CASE_INSENSITIVE == "CASE_INSENSITIVE"

\* xkb keysym_from_name: an exact lookup, or a case-insensitive one that
\* returns the lower-case keysym when there is a choice.
keysym_from_name(name, flags) ==
    IF flags = KEYSYM_NO_FLAGS
    THEN IF \E e \in KeysymTable : e.name = name
         THEN (CHOOSE e \in KeysymTable : e.name = name).sym
         ELSE NoSymbol
    ELSE LET hits == {e \in KeysymTable : eq_ignore_ascii_case(e.name, name)}
         IN  IF hits = {} THEN NoSymbol
             ELSE IF \E e \in hits : e.lower
             THEN (CHOOSE e \in hits : e.lower).sym
             ELSE (CHOOSE e \in hits : TRUE).sym

(***************************************************************************)
(* Key::from_str.                                                          *)
(***************************************************************************)
InvalidModifier == -1

\* A variant of modifier_flag that "repairs" the Mod3/Mod5 aliases.
modifier_flag_uncrossed(part) ==
    IF eq_ignore_ascii_case(part, <<"m", "o", "d">>)
    THEN COMPOSITOR
    ELSE IF eq_ignore_ascii_case(part, <<"c", "t", "r", "l">>)
            \/ eq_ignore_ascii_case(part, <<"c", "o", "n", "t", "r", "o", "l">>)
    THEN CTRL
    ELSE IF eq_ignore_ascii_case(part, <<"s", "h", "i", "f", "t">>)
    THEN SHIFT
    ELSE IF eq_ignore_ascii_case(part, <<"a", "l", "t">>)
    THEN ALT
    ELSE IF eq_ignore_ascii_case(part, <<"s", "u", "p", "e", "r">>)
            \/ eq_ignore_ascii_case(part, <<"w", "i", "n">>)
    THEN SUPER
    ELSE IF eq_ignore_ascii_case(part, <<"i", "s", "o", "_", "l", "e", "v", "e", "l", "3", "_", "s", "h", "i", "f", "t">>)
            \/ eq_ignore_ascii_case(part, <<"m", "o", "d", "3">>)
    THEN ISO_LEVEL3_SHIFT
    ELSE IF eq_ignore_ascii_case(part, <<"i", "s", "o", "_", "l", "e", "v", "e", "l", "5", "_", "s", "h", "i", "f", "t">>)
            \/ eq_ignore_ascii_case(part, <<"m", "o", "d", "5">>)
    THEN ISO_LEVEL5_SHIFT
    ELSE InvalidModifier

\* The flag one modifier token names (the if/else chain of the `for` loop),
\* or InvalidModifier.
modifier_flag(part) ==
    IF eq_ignore_ascii_case(part, <<"m", "o", "d">>)
    THEN COMPOSITOR
    ELSE IF eq_ignore_ascii_case(part, <<"c", "t", "r", "l">>)
            \/ eq_ignore_ascii_case(part, <<"c", "o", "n", "t", "r", "o", "l">>)
    THEN CTRL
    ELSE IF eq_ignore_ascii_case(part, <<"s", "h", "i", "f", "t">>)
    THEN SHIFT
    ELSE IF eq_ignore_ascii_case(part, <<"a", "l", "t">>)
    THEN ALT
    ELSE IF eq_ignore_ascii_case(part, <<"s", "u", "p", "e", "r">>)
            \/ eq_ignore_ascii_case(part, <<"w", "i", "n">>)
    THEN SUPER
    ELSE IF eq_ignore_ascii_case(part, <<"i", "s", "o", "_", "l", "e", "v", "e", "l", "3", "_", "s", "h", "i", "f", "t">>)
            \/ eq_ignore_ascii_case(part, <<"m", "o", "d", "5">>)
    THEN ISO_LEVEL3_SHIFT
    ELSE IF eq_ignore_ascii_case(part, <<"i", "s", "o", "_", "l", "e", "v", "e", "l", "5", "_", "s", "h", "i", "f", "t">>)
            \/ eq_ignore_ascii_case(part, <<"m", "o", "d", "3">>)
    THEN ISO_LEVEL5_SHIFT
    ELSE InvalidModifier

\* A variant of or_modifier that adds the flag instead of OR-ing it.
or_modifier_add(modifiers, flag) == (modifiers + flag) % 256

\* `modifiers |= flag`.
or_modifier(modifiers, flag) == BitOr(modifiers, flag)

\* `let part = part.trim();`
part_token(part) == trim(part)

KeyOk(trigger, modifiers) ==
    [ok |-> TRUE, key |-> [trigger |-> trigger, modifiers |-> modifiers], err |-> <<>>]
KeyErr(msg, token) ==
    [ok |-> FALSE, key |-> [trigger |-> <<>>, modifiers |-> 0], err |-> <<msg, token>>]

\* The `for part in split` loop: the modifiers of the tokens before the key,
\* or the first token that names no modifier.
RECURSIVE parse_modifiers(_, _)
parse_modifiers(parts, modifiers) ==
    IF parts = <<>> THEN [ok |-> TRUE, modifiers |-> modifiers, part |-> <<>>]
    ELSE LET part == part_token(Head(parts))
             flag == modifier_flag(part)
         IN  IF flag = InvalidModifier
             THEN [ok |-> FALSE, modifiers |-> modifiers, part |-> part]
             ELSE parse_modifiers(Tail(parts), or_modifier(modifiers, flag))

\* The synthetic trigger a key token names, or "Keysym" when it names none.
trigger_kind(key) ==
    IF eq_ignore_ascii_case(key, <<"M", "o", "u", "s", "e", "L", "e", "f", "t">>)
    THEN "MouseLeft"
    ELSE IF eq_ignore_ascii_case(key, <<"M", "o", "u", "s", "e", "R", "i", "g", "h", "t">>)
    THEN "MouseRight"
    ELSE IF eq_ignore_ascii_case(key, <<"M", "o", "u", "s", "e", "M", "i", "d", "d", "l", "e">>)
    THEN "MouseMiddle"
    ELSE IF eq_ignore_ascii_case(key, <<"M", "o", "u", "s", "e", "B", "a", "c", "k">>)
    THEN "MouseBack"
    ELSE IF eq_ignore_ascii_case(key, <<"M", "o", "u", "s", "e", "F", "o", "r", "w", "a", "r", "d">>)
    THEN "MouseForward"
    ELSE IF eq_ignore_ascii_case(key, <<"W", "h", "e", "e", "l", "S", "c", "r", "o", "l", "l", "D", "o", "w", "n">>)
    THEN "WheelScrollDown"
    ELSE IF eq_ignore_ascii_case(key, <<"W", "h", "e", "e", "l", "S", "c", "r", "o", "l", "l", "U", "p">>)
    THEN "WheelScrollUp"
    ELSE IF eq_ignore_ascii_case(key, <<"W", "h", "e", "e", "l", "S", "c", "r", "o", "l", "l", "L", "e", "f", "t">>)
    THEN "WheelScrollLeft"
    ELSE IF eq_ignore_ascii_case(key, <<"W", "h", "e", "e", "l", "S", "c", "r", "o", "l", "l", "R", "i", "g", "h", "t">>)
    THEN "WheelScrollRight"
    ELSE IF eq_ignore_ascii_case(key, <<"T", "o", "u", "c", "h", "p", "a", "d", "S", "c", "r", "o", "l", "l", "D", "o", "w", "n">>)
    THEN "TouchpadScrollDown"
    ELSE IF eq_ignore_ascii_case(key, <<"T", "o", "u", "c", "h", "p", "a", "d", "S", "c", "r", "o", "l", "l", "U", "p">>)
    THEN "TouchpadScrollUp"
    ELSE IF eq_ignore_ascii_case(key, <<"T", "o", "u", "c", "h", "p", "a", "d", "S", "c", "r", "o", "l", "l", "L", "e", "f", "t">>)
    THEN "TouchpadScrollLeft"
    ELSE IF eq_ignore_ascii_case(key, <<"T", "o", "u", "c", "h", "p", "a", "d", "S", "c", "r", "o", "l", "l", "R", "i", "g", "h", "t">>)
    THEN "TouchpadScrollRight"
    ELSE "Keysym"

\* A variant of key_keysym without the second, case-sensitive lookup.
key_keysym_icase_only(key) == keysym_from_name(key, KEYSYM_CASE_INSENSITIVE)

\* The keysym of a key token, with the XF86ScreenSaver special case.
key_keysym(key) ==
    LET icase == keysym_from_name(key, KEYSYM_CASE_INSENSITIVE)
    IN  IF icase = "XF86Screensaver"
        THEN LET exact == keysym_from_name(key, KEYSYM_NO_FLAGS)
             IN  IF exact = NoSymbol THEN "XF86ScreenSaver" ELSE exact
        ELSE icase

Key_from_str(s) ==
    LET tokens == split(s, "+")
        key    == tokens[Len(tokens)]
        mods   == parse_modifiers(SubSeq(tokens, 1, Len(tokens) - 1), Modifiers_empty)
        kind   == trigger_kind(key)
    IN  IF ~mods.ok THEN KeyErr("invalid modifier", mods.part)
        ELSE IF kind # "Keysym" THEN KeyOk(<<kind>>, mods.modifiers)
        ELSE IF key_keysym(key) = NoSymbol THEN KeyErr("invalid key", key)
        ELSE KeyOk(<<"Keysym", key_keysym(key)>>, mods.modifiers)

(***************************************************************************)
(* Key::from_str applied to key-combo strings.  An input is given by its   *)
(* tokens; the string handed to the parser is the tokens joined by "+".    *)
(***************************************************************************)
KeyInputs ==
    { [mods |-> <<<<"c", "t", "r", "l">>>>,
       key |-> <<"a">>],
      [mods |-> <<<<"C", "T", "R", "L">>>>,
       key |-> <<"A">>],
      [mods |-> <<<<"C", "t", "r", "l">>>>,
       key |-> <<"a">>],
      [mods |-> <<<<"C", "t", "r", "l">>, <<"S", "h", "i", "f", "t">>>>,
       key |-> <<"a">>],
      [mods |-> <<<<"S", "h", "i", "f", "t">>, <<"C", "t", "r", "l">>>>,
       key |-> <<"a">>],
      [mods |-> <<<<"C", "t", "r", "l">>, <<"C", "t", "r", "l">>, <<"S", "h", "i", "f", "t">>>>,
       key |-> <<"a">>],
      [mods |-> <<<<"S", "H", "I", "F", "T">>, <<"c", "t", "r", "l">>>>,
       key |-> <<"a">>],
      [mods |-> <<<<"I", "S", "O", "_", "L", "e", "v", "e", "l", "3", "_", "S", "h", "i", "f", "t">>>>,
       key |-> <<"A">>],
      [mods |-> <<<<"M", "o", "d", "5">>>>,
       key |-> <<"A">>],
      [mods |-> <<<<"I", "S", "O", "_", "L", "e", "v", "e", "l", "5", "_", "S", "h", "i", "f", "t">>>>,
       key |-> <<"A">>],
      [mods |-> <<<<"M", "o", "d", "3">>>>,
       key |-> <<"A">>],
      [mods |-> <<<<"m", "o", "d", "3">>, <<"M", "O", "D", "3">>>>,
       key |-> <<"A">>],
      [mods |-> <<>>,
       key |-> <<"X", "F", "8", "6", "S", "c", "r", "e", "e", "n", "S", "a", "v", "e", "r">>],
      [mods |-> <<>>,
       key |-> <<"X", "F", "8", "6", "S", "c", "r", "e", "e", "n", "s", "a", "v", "e", "r">>],
      [mods |-> <<>>,
       key |-> <<"x", "f", "8", "6", "s", "c", "r", "e", "e", "n", "s", "a", "v", "e", "r">>],
      [mods |-> <<<<"M", "o", "d">>>>,
       key |-> <<"R", "e", "t", "u", "r", "n">>],
      [mods |-> <<<<"S", "u", "p", "e", "r">>>>,
       key |-> <<"b">>],
      [mods |-> <<<<"W", "i", "n">>>>,
       key |-> <<"b">>],
      [mods |-> <<<<"A", "l", "t">>>>,
       key |-> <<"M", "o", "u", "s", "e", "L", "e", "f", "t">>],
      [mods |-> <<<<"a", "l", "t">>>>,
       key |-> <<"m", "o", "u", "s", "e", "l", "e", "f", "t">>],
      [mods |-> <<<<"C", "o", "n", "t", "r", "o", "l">>>>,
       key |-> <<"a">>],
      [mods |-> <<<<" ", "c", "t", "r", "l", " ">>>>,
       key |-> <<"a">>],
      [mods |-> <<<<"F", "o", "o">>>>,
       key |-> <<"a">>],
      [mods |-> <<<<"C", "t", "r", "l">>>>,
       key |-> <<"n", "o", "k", "e", "y">>],
      [mods |-> <<<<"C", "t", "r", "l">>, <<"H", "y", "p", "e", "r">>>>,
       key |-> <<"a">>],
      [mods |-> <<>>,
       key |-> <<"X", "F", "8", "6", "S", "C", "R", "E", "E", "N", "S", "A", "V", "E", "R">>],
      [mods |-> <<<<"M", "o", "d">>>>,
       key |-> <<"X", "f", "8", "6", "S", "c", "r", "e", "e", "n", "S", "a", "v", "e", "r">>],
      [mods |-> <<<<"M", "o", "d">>>>,
       key |-> <<"X", "F", "8", "6", "S", "c", "r", "e", "e", "n", "s", "a", "v", "e", "r">>],
      [mods |-> <<>>,
       key |-> <<"a">>] }

RECURSIVE combo_string(_, _)
combo_string(mods, key) ==
    IF mods = <<>> THEN key
    ELSE Head(mods) \o <<"+">> \o combo_string(Tail(mods), key)

InitKey ==
    /\ parsed = <<>>
    /\ children = <<>>
    /\ decoded = <<>>
    /\ seen_keys = {}
    /\ binds = <<>>
    /\ errors = <<>>
    /\ translated = {}
    /\ IdleMerge
    /\ IdleRules
    /\ IdleModKey
    /\ IdleScroll
    /\ IdleKdeWm
    /\ IdleOrder
    /\ IdleRegion
    /\ IdleLayer
    /\ IdleBackend

\* `s.parse::<Key>()` on one more key-combo string.
ParseKey ==
    /\ Len(parsed) < MaxParsed
    /\ \E in \in KeyInputs :
          LET s == combo_string(in.mods, in.key)
          IN  parsed' = Append(parsed, [mods |-> in.mods, key |-> in.key, s |-> s,
                                        result |-> Key_from_str(s)])
    /\ UNCHANGED notKeyVars

NextKey == ParseKey

SpecKey == InitKey /\ [][NextKey]_vars

(***************************************************************************)
(* Claims about Key::from_str (checked under SpecKey).                     *)
(***************************************************************************)
lower_str(s) == [i \in 1..Len(s) |-> to_ascii_lowercase(s[i])]

\* The modifier tokens of an input, letter case, order and repetition ignored.
ModifierTokenSet(p) == {lower_str(p.mods[i]) : i \in 1..Len(p.mods)}

SameModifierTokens(p, q) ==
    /\ p.key = q.key
    /\ ModifierTokenSet(p) = ModifierTokenSet(q)

ModifierFlags == {CTRL, SHIFT, ALT, SUPER, ISO_LEVEL3_SHIFT, ISO_LEVEL5_SHIFT, COMPOSITOR}

HasFlag(modifiers, flag) == (modifiers \div flag) % 2 = 1

CtrlACombos == { <<"c", "t", "r", "l", "+", "a">>,
                 <<"C", "T", "R", "L", "+", "A">>,
                 <<"C", "t", "r", "l", "+", "a">> }

\* C9: letter case, order and repetition of the modifier tokens do not change
\* the parsed Key; the modifier set of a parsed Key holds exactly the flags its
\* modifier tokens name; "ctrl+a", "CTRL+A" and "Ctrl+a" parse to one Key.
C9_ModifierCaseOrderRepetition ==
    /\ \A i, j \in DOMAIN parsed :
          SameModifierTokens(parsed[i], parsed[j])
             => /\ parsed[i].result.ok = parsed[j].result.ok
                /\ parsed[i].result.key = parsed[j].result.key
    /\ \A i \in DOMAIN parsed :
          parsed[i].result.ok =>
             \A f \in ModifierFlags :
                HasFlag(parsed[i].result.key.modifiers, f)
                   <=> \E k \in 1..Len(parsed[i].mods) :
                          modifier_flag(trim(parsed[i].mods[k])) = f
    /\ \A i, j \in DOMAIN parsed :
          parsed[i].s \in CtrlACombos /\ parsed[j].s \in CtrlACombos
             => /\ parsed[i].result.ok
                /\ parsed[i].result = parsed[j].result

\* Two different spellings of the same modifier tokens, one of them repeating
\* a token, have both been parsed to a Key.
C9_Witness ==
    \E i, j \in DOMAIN parsed :
        /\ parsed[i].s # parsed[j].s
        /\ SameModifierTokens(parsed[i], parsed[j])
        /\ Len(parsed[i].mods) < Len(parsed[j].mods)
        /\ Cardinality(ModifierTokenSet(parsed[i])) > 1
        /\ parsed[i].result.ok /\ parsed[j].result.ok

Level3Combos == { <<"I", "S", "O", "_", "L", "e", "v", "e", "l", "3", "_", "S", "h", "i", "f", "t", "+", "A">>,
                  <<"M", "o", "d", "5", "+", "A">> }
Level5Combos == { <<"I", "S", "O", "_", "L", "e", "v", "e", "l", "5", "_", "S", "h", "i", "f", "t", "+", "A">>,
                  <<"M", "o", "d", "3", "+", "A">> }

\* C10: "ISO_Level3_Shift+A" and "Mod5+A" parse to the Key (Keysym a,
\* ISO_LEVEL3_SHIFT), "ISO_Level5_Shift+A" and "Mod3+A" parse to the Key
\* (Keysym a, ISO_LEVEL5_SHIFT), and the two Keys differ.
C10_IsoLevelShiftAliases ==
    /\ \A i \in DOMAIN parsed :
          /\ parsed[i].s \in Level3Combos
                => parsed[i].result = KeyOk(<<"Keysym", "a">>, ISO_LEVEL3_SHIFT)
          /\ parsed[i].s \in Level5Combos
                => parsed[i].result = KeyOk(<<"Keysym", "a">>, ISO_LEVEL5_SHIFT)
    /\ \A i, j \in DOMAIN parsed :
          parsed[i].s \in Level3Combos /\ parsed[j].s \in Level5Combos
             => parsed[i].result.key # parsed[j].result.key

\* "Mod5+A" and "Mod3+A" have both been parsed.
C10_Witness ==
    \E i, j \in DOMAIN parsed :
        /\ parsed[i].s = <<"M", "o", "d", "5", "+", "A">>
        /\ parsed[j].s = <<"M", "o", "d", "3", "+", "A">>

ScreenSaverName == <<"X", "F", "8", "6", "S", "c", "r", "e", "e", "n", "S", "a", "v", "e", "r">>
ScreensaverName == <<"X", "F", "8", "6", "S", "c", "r", "e", "e", "n", "s", "a", "v", "e", "r">>

\* The key token is some casing of the screen-saver key name.
IsScreenSaverToken(p) == lower_str(p.key) = lower_str(ScreenSaverName)

\* C11: "XF86ScreenSaver" and "XF86Screensaver" parse to two distinct keysym
\* Keys, and every other casing of the name (such as "xf86screensaver"), which
\* the case-insensitive lookup resolves to the lower-case keysym and which has
\* no exact match, parses to the Key of "XF86ScreenSaver".
C11_ScreenSaverCasings ==
    /\ \A i \in DOMAIN parsed :
          IsScreenSaverToken(parsed[i]) /\ parsed[i].result.ok =>
             parsed[i].result.key.trigger =
                IF parsed[i].key = ScreensaverName
                THEN <<"Keysym", "XF86Screensaver">>
                ELSE <<"Keysym", "XF86ScreenSaver">>
    /\ \A i \in DOMAIN parsed :
          IsScreenSaverToken(parsed[i]) /\ parsed[i].mods = <<>> => parsed[i].result.ok
    /\ \A i, j \in DOMAIN parsed :
          /\ parsed[i].s = ScreenSaverName /\ parsed[j].s = ScreensaverName
                => parsed[i].result.key # parsed[j].result.key
          /\ (/\ parsed[i].s = ScreenSaverName
              /\ IsScreenSaverToken(parsed[j])
              /\ parsed[j].mods = <<>>
              /\ parsed[j].key # ScreensaverName)
                => parsed[j].result = parsed[i].result

\* "XF86ScreenSaver" and "xf86screensaver" have both been parsed, or
\* "XF86ScreenSaver" and "XF86Screensaver" have.
C11_Witness ==
    \E i, j \in DOMAIN parsed :
        /\ parsed[i].s = ScreenSaverName
        /\ parsed[j].s \in {ScreensaverName, lower_str(ScreenSaverName)}
        /\ parsed[i].result.ok /\ parsed[j].result.ok

(***************************************************************************)
(* The KDL document: literals, action nodes and bind nodes.                *)
(***************************************************************************)
None    == <<>>
Some(x) == <<x>>

LitBool(b)   == [kind |-> "Bool",   b |-> b,     n |-> 0, s |-> ""]
LitInt(n)    == [kind |-> "Int",    b |-> FALSE, n |-> n, s |-> ""]
LitString(s) == [kind |-> "String", b |-> FALSE, n |-> 0, s |-> s]
LitNull      == [kind |-> "Null",   b |-> FALSE, n |-> 0, s |-> ""]

\* A DecodeError: its message and the place in the bind node its span points to.
Diag(msg, span) == [msg |-> msg, span |-> span]

(***************************************************************************)
(* knus::DecodeScalar::decode for the property types of a bind.  Each      *)
(* returns a Result; a value of the wrong kind is reported through the     *)
(* context and decodes to Ok(default), as in                               *)
(* WorkspaceReference::raw_decode.                                         *)
(***************************************************************************)
\* A variant of decode_bool that returns Err for a value of the wrong kind.
decode_bool_strict(val, span) ==
    IF val.kind = "Bool"
    THEN [ok |-> TRUE, value |-> val.b, errs |-> <<>>]
    ELSE [ok |-> FALSE, value |-> FALSE,
          errs |-> <<Diag("expected boolean scalar", span)>>]

\* bool::decode: the value of a Bool literal; any other literal is reported
\* and decodes to false.
decode_bool(val, span) ==
    IF val.kind = "Bool"
    THEN [ok |-> TRUE, value |-> val.b, errs |-> <<>>]
    ELSE [ok |-> TRUE, value |-> FALSE,
          errs |-> <<Diag("expected boolean scalar", span)>>]

decode_u64(val, span) ==
    IF val.kind = "Int"
    THEN IF val.n >= 0
         THEN [ok |-> TRUE, value |-> val.n, errs |-> <<>>]
         ELSE [ok |-> TRUE, value |-> 0,
               errs |-> <<Diag("integer conversion failed", span)>>]
    ELSE [ok |-> TRUE, value |-> 0, errs |-> <<Diag("expected integer scalar", span)>>]

decode_opt_string(val, span) ==
    IF val.kind = "Null" THEN [ok |-> TRUE, value |-> None, errs |-> <<>>]
    ELSE IF val.kind = "String" THEN [ok |-> TRUE, value |-> Some(val.s), errs |-> <<>>]
    ELSE [ok |-> TRUE, value |-> Some(""),
          errs |-> <<Diag("expected string scalar", span)>>]

(***************************************************************************)
(* Action and its derived decoder, for the variants the binds below use.   *)
(***************************************************************************)
Act(variant, args) == [variant |-> variant, args |-> args]

\* Variants marked #[knus(skip)]: they have no node name in the grammar.
SkippedActionNames ==
    {"change-vt", "confirm-screenshot", "cancel-screenshot", "screenshot-window-by-id",
     "close-window-by-id", "fullscreen-window-by-id", "focus-window",
     "move-window-to-workspace-by-id", "set-workspace-name-by-ref", "load-config-file"}

\* The variant each of these names would stand for.
SkippedActionVariants ==
    [n \in SkippedActionNames |->
        CASE n = "change-vt" -> "ChangeVt"
          [] n = "confirm-screenshot" -> "ConfirmScreenshot"
          [] n = "cancel-screenshot" -> "CancelScreenshot"
          [] n = "screenshot-window-by-id" -> "ScreenshotWindowById"
          [] n = "close-window-by-id" -> "CloseWindowById"
          [] n = "fullscreen-window-by-id" -> "FullscreenWindowById"
          [] n = "focus-window" -> "FocusWindow"
          [] n = "move-window-to-workspace-by-id" -> "MoveWindowToWorkspaceById"
          [] n = "set-workspace-name-by-ref" -> "SetWorkspaceNameByRef"
          [] n = "load-config-file" -> "LoadConfigFile"]

\* A variant of has_decode_arm for an enum on which #[knus(skip)] is lost.
has_decode_arm_unskipped(name) == TRUE

\* The derived decoder has an arm for a node name unless the variant is
\* marked #[knus(skip)].
has_decode_arm(name) == name \notin SkippedActionNames

UnitActionNames ==
    [n \in {"suspend", "toggle-keyboard-shortcuts-inhibit", "close-window",
            "focus-column-left", "focus-column-right"} |->
        CASE n = "suspend" -> "Suspend"
          [] n = "toggle-keyboard-shortcuts-inhibit" -> "ToggleKeyboardShortcutsInhibit"
          [] n = "close-window" -> "CloseWindow"
          [] n = "focus-column-left" -> "FocusColumnLeft"
          [] n = "focus-column-right" -> "FocusColumnRight"]

ActionOk(action) == [ok |-> TRUE, action |-> action, err |-> ""]
ActionErr(msg)   == [ok |-> FALSE, action |-> Act("", <<>>), err |-> msg]

\* Action::decode_node (derived): the variant the node names, with its arguments.
Action_decode_node(node) ==
    IF node.name = "spawn" THEN ActionOk(Act("Spawn", node.arguments))
    ELSE IF node.name = "spawn-sh"
    THEN IF node.arguments = <<>>
         THEN ActionErr("additional argument is required")
         ELSE ActionOk(Act("SpawnSh", <<Head(node.arguments)>>))
    ELSE IF node.name \in DOMAIN UnitActionNames
    THEN ActionOk(Act(UnitActionNames[node.name], <<>>))
    ELSE IF node.name \in DOMAIN SkippedActionVariants /\ has_decode_arm(node.name)
    THEN ActionOk(Act(SkippedActionVariants[node.name], node.arguments))
    ELSE ActionErr("unexpected node")

(***************************************************************************)
(* Bind::decode_node.                                                      *)
(***************************************************************************)
BindOk(bind, errs) == [ok |-> TRUE,  bind |-> <<bind>>, err |-> <<>>,    errs |-> errs]
BindErr(err, errs) == [ok |-> FALSE, bind |-> <<>>,     err |-> <<err>>, errs |-> errs]

\* The locals of Bind::decode_node before the property scan.
PropsInit(errs) ==
    [failed |-> FALSE,
     repeat |-> TRUE,
     cooldown |-> None,
     allow_when_locked |-> FALSE,
     allow_when_locked_node |-> None,
     allow_inhibiting |-> TRUE,
     hotkey_overlay_title |-> None,
     errs |-> errs]

\* One iteration of `for (name, val) in &node.properties`.
scan_property(st, prop) ==
    IF prop.name = "repeat"
    THEN LET d == decode_bool(prop.val, prop.name)
         IN  [st EXCEPT !.failed = ~d.ok, !.repeat = d.value, !.errs = @ \o d.errs]
    ELSE IF prop.name = "cooldown-ms"
    THEN LET d == decode_u64(prop.val, prop.name)
         IN  [st EXCEPT !.failed = ~d.ok, !.cooldown = Some(d.value), !.errs = @ \o d.errs]
    ELSE IF prop.name = "allow-when-locked"
    THEN LET d == decode_bool(prop.val, prop.name)
         IN  [st EXCEPT !.failed = ~d.ok, !.allow_when_locked = d.value,
                        !.allow_when_locked_node = IF d.ok THEN Some(prop.name) ELSE @,
                        !.errs = @ \o d.errs]
    ELSE IF prop.name = "allow-inhibiting"
    THEN LET d == decode_bool(prop.val, prop.name)
         IN  [st EXCEPT !.failed = ~d.ok, !.allow_inhibiting = d.value, !.errs = @ \o d.errs]
    ELSE IF prop.name = "hotkey-overlay-title"
    THEN LET d == decode_opt_string(prop.val, prop.name)
         IN  [st EXCEPT !.failed = ~d.ok, !.hotkey_overlay_title = Some(d.value),
                        !.errs = @ \o d.errs]
    ELSE [st EXCEPT !.errs = Append(@, Diag("unexpected property", prop.name))]

\* The property loop; a scalar decoder that returns Err ends it (the `?`).
RECURSIVE scan_properties(_, _)
scan_properties(props, st) ==
    IF props = <<>> \/ st.failed THEN st
    ELSE scan_properties(Tail(props), scan_property(st, Head(props)))

\* `let dummy = Self { key, action: Action::Spawn(vec![]), .. }`.
dummy(key) ==
    [key |-> key,
     action |-> Act("Spawn", <<>>),
     repeat |-> TRUE,
     cooldown |-> None,
     allow_when_locked |-> FALSE,
     allow_inhibiting |-> TRUE,
     hotkey_overlay_title |-> None]

\* A variant of spawn_family that forgets SpawnSh.
spawn_family_spawn_only(action) == action.variant = "Spawn"

\* matches!(action, Action::Spawn(_) | Action::SpawnSh(_)).
spawn_family(action) == action.variant \in {"Spawn", "SpawnSh"}

\* A variant of effective_allow_inhibiting that keeps the requested value.
effective_allow_inhibiting_as_requested(action, allow_inhibiting) == allow_inhibiting

\* The toggle-inhibit action must always be uninhibitable.
effective_allow_inhibiting(action, allow_inhibiting) ==
    IF action.variant = "ToggleKeyboardShortcutsInhibit" THEN FALSE ELSE allow_inhibiting

\* A variant of action_failed that gives the error up to the caller.
action_failed_propagates(key, e, errs) == BindErr(e, errs)

\* The Err arm of Action::decode_node, and the arm of a bind with no child:
\* the error is collected and the placeholder is returned.
action_failed(key, e, errs) == BindOk(dummy(key), Append(errs, e))

\* The Ok arm of Action::decode_node.
action_decoded(key, action, st) ==
    LET errs == IF ~spawn_family(action) /\ st.allow_when_locked_node # None
                THEN Append(st.errs,
                            Diag("allow-when-locked can only be set on spawn binds",
                                 Head(st.allow_when_locked_node)))
                ELSE st.errs
    IN  BindOk([key |-> key,
                action |-> action,
                repeat |-> st.repeat,
                cooldown |-> st.cooldown,
                allow_when_locked |-> st.allow_when_locked,
                allow_inhibiting |-> effective_allow_inhibiting(action, st.allow_inhibiting),
                hotkey_overlay_title |-> st.hotkey_overlay_title],
               errs)

\* Bind::decode_node: the Bind or the error it returns, with the diagnostics
\* it emits on the way.
Bind_decode_node(node) ==
    LET pre == (IF node.type_name
                THEN <<Diag("no type name expected for this node", "type_name")>>
                ELSE <<>>)
               \o [k \in 1..node.arguments |->
                      Diag("no arguments expected for this node", "argument")]
        key == Key_from_str(node.node_name)
    IN  IF ~key.ok
        THEN BindErr(Diag("invalid keybind", "node_name"), pre)
        ELSE
        LET st == scan_properties(node.properties, PropsInit(pre))
        IN  IF st.failed
            THEN BindErr(Diag("scalar decode failed", "property"), st.errs)
            ELSE IF node.children = <<>>
            THEN action_failed(key.key,
                               Diag("expected an action for this keybind", "node"),
                               st.errs)
            ELSE
            LET unwanted == [k \in 1..(Len(node.children) - 1) |->
                                Diag("only one action is allowed per keybind", "child")]
                errs     == st.errs \o unwanted
                a        == Action_decode_node(Head(node.children))
            IN  IF a.ok
                THEN action_decoded(key.key, a.action, [st EXCEPT !.errs = errs])
                ELSE action_failed(key.key, Diag(a.err, "action"), errs)

(***************************************************************************)
(* The bind nodes a `binds` section is built from.                         *)
(***************************************************************************)
Name_Mod_a        == <<"M", "o", "d", "+", "a">>
Name_mod_A        == <<"m", "o", "d", "+", "A">>
Name_Ctrl_a       == <<"C", "t", "r", "l", "+", "a">>
Name_Ctrl_Shift_a == <<"C", "t", "r", "l", "+", "S", "h", "i", "f", "t", "+", "a">>
Name_Shift_Ctrl_a == <<"S", "h", "i", "f", "t", "+", "C", "t", "r", "l", "+", "a">>
Name_Foo_a        == <<"F", "o", "o", "+", "a">>
Name_Mod_nokey    == <<"M", "o", "d", "+", "n", "o", "k", "e", "y">>

Prop(name, val) == [name |-> name, val |-> val]

ActionNode(name, arguments) == [name |-> name, arguments |-> arguments]

\* A bind node; its properties are listed in the order of node.properties.
BindNode(node_name, properties, kids) ==
    [node_name |-> node_name, type_name |-> FALSE, arguments |-> 0,
     properties |-> properties, children |-> kids]

A_spawn      == ActionNode("spawn", <<"foot">>)
A_spawn_sh   == ActionNode("spawn-sh", <<"notify-send hi">>)
A_focus_left == ActionNode("focus-column-left", <<>>)
A_toggle_ksi == ActionNode("toggle-keyboard-shortcuts-inhibit", <<>>)
A_unknown    == ActionNode("no-such-action", <<>>)
A_by_id      == ActionNode("close-window-by-id", <<>>)
A_by_ref     == ActionNode("set-workspace-name-by-ref", <<"mail">>)
A_sh_no_arg  == ActionNode("spawn-sh", <<>>)

P_awl(v) == Prop("allow-when-locked", v)
P_ai(v)  == Prop("allow-inhibiting", v)

Nodes ==
    { \* plain binds, one key spelled in two ways
      BindNode(Name_Mod_a, <<>>, <<A_spawn>>),
      BindNode(Name_mod_A, <<>>, <<A_focus_left>>),
      BindNode(Name_Ctrl_a, <<>>, <<A_focus_left>>),
      \* the key parses, the action is missing, fails, or is not alone
      BindNode(Name_Mod_a, <<>>, <<>>),
      BindNode(Name_Mod_a, <<>>, <<A_unknown>>),
      BindNode(Name_Ctrl_a, <<>>, <<A_by_id>>),
      BindNode(Name_Ctrl_Shift_a, <<>>, <<A_by_ref>>),
      BindNode(Name_Mod_a, <<>>, <<A_spawn, A_focus_left>>),
      \* an unknown property, a property value of the wrong type
      BindNode(Name_Mod_a, <<Prop("frobnicate", LitBool(TRUE))>>, <<A_spawn>>),
      BindNode(Name_Mod_a, <<Prop("repeat", LitString("yes"))>>, <<A_spawn>>),
      BindNode(Name_Mod_a, <<Prop("frobnicate", LitBool(TRUE)),
                             Prop("repeat", LitString("yes"))>>, <<A_unknown, A_spawn>>),
      \* allow-when-locked
      BindNode(Name_Ctrl_a, <<P_awl(LitBool(TRUE))>>, <<A_spawn>>),
      BindNode(Name_Ctrl_a, <<P_awl(LitBool(FALSE))>>, <<A_spawn_sh>>),
      BindNode(Name_Ctrl_a, <<P_awl(LitBool(TRUE))>>, <<A_focus_left>>),
      BindNode(Name_Ctrl_a, <<P_awl(LitBool(FALSE))>>, <<A_focus_left>>),
      BindNode(Name_Ctrl_a, <<P_awl(LitString("yes"))>>, <<A_focus_left>>),
      BindNode(Name_Ctrl_a, <<P_awl(LitBool(TRUE))>>, <<A_sh_no_arg>>),
      BindNode(Name_Ctrl_a, <<P_awl(LitBool(TRUE))>>, <<A_spawn_sh>>),
      BindNode(Name_Ctrl_a, <<P_awl(LitBool(TRUE))>>, <<>>),
      BindNode(Name_Ctrl_a, <<P_awl(LitBool(FALSE))>>, <<A_spawn, A_focus_left>>),
      \* allow-inhibiting and the other properties
      BindNode(Name_Ctrl_Shift_a, <<P_ai(LitBool(TRUE))>>, <<A_toggle_ksi>>),
      BindNode(Name_Shift_Ctrl_a, <<>>, <<A_toggle_ksi>>),
      BindNode(Name_Ctrl_Shift_a, <<P_ai(LitBool(FALSE))>>, <<A_focus_left>>),
      BindNode(Name_Ctrl_Shift_a,
               <<P_ai(LitBool(TRUE)), Prop("cooldown-ms", LitInt(500)),
                 Prop("hotkey-overlay-title", LitNull), Prop("repeat", LitBool(FALSE))>>,
               <<A_spawn>>),
      \* the node name is no Key
      BindNode(Name_Foo_a, <<>>, <<A_spawn>>),
      [BindNode(Name_Mod_nokey, <<P_awl(LitBool(TRUE))>>, <<A_focus_left>>)
          EXCEPT !.type_name = TRUE],
      \* a type name and an argument on the bind node
      [BindNode(Name_mod_A, <<>>, <<A_spawn>>) EXCEPT !.type_name = TRUE, !.arguments = 1] }

\* Bind::decode_node and Key::from_str are pure: their value for each node.
DecodedNode == [n \in Nodes |-> Bind_decode_node(n)]
NodeKey     == [n \in Nodes |-> Key_from_str(n.node_name)]

\* ctx.emit_error: the diagnostic joins the context's list; `node` is the
\* index of the bind node the span lies in.
Emit(errs, at) ==
    [k \in DOMAIN errs |-> [msg |-> errs[k].msg, span |-> errs[k].span, node |-> at]]

(***************************************************************************)
(* Binds::decode_node: one action per arm of the `for child` loop body.    *)
(***************************************************************************)
InitBinds ==
    /\ parsed = <<>>
    /\ children = <<>>
    /\ decoded = <<>>
    /\ seen_keys = {}
    /\ binds = <<>>
    /\ errors = <<>>
    /\ translated = {}
    /\ IdleMerge
    /\ IdleRules
    /\ IdleModKey
    /\ IdleScroll
    /\ IdleKdeWm
    /\ IdleOrder
    /\ IdleRegion
    /\ IdleLayer
    /\ IdleBackend

\* A variant of binds_on_error that gives up the list, as `?` would.
binds_on_error_abort(bs) == <<>>

\* The Err arm: the error is emitted and the list is left as it is.
binds_on_error(bs) == bs

\* A variant of binds_on_duplicate that reports the duplicate and keeps it.
binds_on_duplicate_keep(bs, bind) == Append(bs, bind)

\* A variant of binds_on_duplicate in which the last bind of a Key wins.
binds_on_duplicate_replace(bs, bind) ==
    [i \in DOMAIN bs |-> IF bs[i].key = bind.key THEN bind ELSE bs[i]]

\* The arm of a Key that seen_keys already holds: the bind is not pushed.
binds_on_duplicate(bs, bind) == bs

\* DecodeError::unexpected(&child.node_name, "keybind", "duplicate keybind").
duplicate_error == Diag("duplicate keybind", "node_name")

\* Err(e) => ctx.emit_error(e)
DecodeChildErr ==
    /\ Len(children) < MaxNodes
    /\ \E child \in Nodes :
          LET at == Len(children) + 1
              r  == DecodedNode[child]
          IN  /\ ~r.ok
              /\ children' = Append(children, child)
              /\ decoded' = Append(decoded, r)
              /\ errors' = errors \o Emit(r.errs \o r.err, at)
              /\ binds' = binds_on_error(binds)
              /\ seen_keys' = seen_keys
    /\ UNCHANGED notBindVars

\* Ok(bind), seen_keys.insert(bind.key) is true => binds.push(bind)
DecodeChildPush ==
    /\ Len(children) < MaxNodes
    /\ \E child \in Nodes :
          LET at == Len(children) + 1
              r  == DecodedNode[child]
          IN  /\ r.ok
              /\ r.bind[1].key \notin seen_keys
              /\ children' = Append(children, child)
              /\ decoded' = Append(decoded, r)
              /\ errors' = errors \o Emit(r.errs, at)
              /\ seen_keys' = seen_keys \cup {r.bind[1].key}
              /\ binds' = Append(binds, r.bind[1])
    /\ UNCHANGED notBindVars

\* Ok(bind), seen_keys.insert(bind.key) is false => "duplicate keybind"
DecodeChildDuplicate ==
    /\ Len(children) < MaxNodes
    /\ \E child \in Nodes :
          LET at == Len(children) + 1
              r  == DecodedNode[child]
          IN  /\ r.ok
              /\ r.bind[1].key \in seen_keys
              /\ children' = Append(children, child)
              /\ decoded' = Append(decoded, r)
              /\ errors' = errors \o Emit(Append(r.errs, duplicate_error), at)
              /\ seen_keys' = seen_keys
              /\ binds' = binds_on_duplicate(binds, r.bind[1])
    /\ UNCHANGED notBindVars

Next ==
    \/ DecodeChildErr
    \/ DecodeChildPush
    \/ DecodeChildDuplicate

Spec == InitBinds /\ [][Next]_vars

(***************************************************************************)
(* Claims about Binds::decode_node and Bind::decode_node (checked under    *)
(* Spec).  children[i] is the i-th sibling node, decoded[i] what           *)
(* Bind::decode_node returned for it.                                      *)
(***************************************************************************)
KeyOf(i) == NodeKey[children[i]]

\* The nodes whose name parses as a Key.
ValidIdx == {i \in DOMAIN children : KeyOf(i).ok}

\* Node i is the first sibling, in document order, with its Key.
FirstOfKey(i) ==
    /\ i \in ValidIdx
    /\ \A j \in ValidIdx : j < i => KeyOf(j).key # KeyOf(i).key

DiagsAt(i, msg) == {k \in DOMAIN errors : errors[k].node = i /\ errors[k].msg = msg}

DupDiags(i) == DiagsAt(i, "duplicate keybind")

BindsWithKey(key) == {b \in DOMAIN binds : binds[b].key = key}

HasProp(node, name) == \E k \in DOMAIN node.properties : node.properties[k].name = name

PropVal(node, name) ==
    node.properties[CHOOSE k \in DOMAIN node.properties : node.properties[k].name = name].val

\* The node has no action child, or its first child decodes to no Action.
ActionBroken(node) ==
    \/ node.children = <<>>
    \/ ~Action_decode_node(Head(node.children)).ok

\* The node's first child decodes to an Action of one of the variants.
ActionIn(node, variants) ==
    /\ node.children # <<>>
    /\ Action_decode_node(Head(node.children)).ok
    /\ Action_decode_node(Head(node.children)).action.variant \in variants

AllVariants ==
    {"Spawn", "SpawnSh", "Suspend", "ToggleKeyboardShortcutsInhibit", "CloseWindow",
     "FocusColumnLeft", "FocusColumnRight"}

\* C1: no two Binds of the decoded list have the same Key.
C1_KeysUnique ==
    \A i, j \in DOMAIN binds : i # j => binds[i].key # binds[j].key

\* Two binds were kept and a third node, with the Key of one of them, was dropped.
C1_Witness ==
    /\ Len(binds) = 2
    /\ \E i \in DOMAIN children : DupDiags(i) # {}

\* C2: of the nodes with one Key the list keeps the Bind of the first, and
\* only that one; every later node with that Key is dropped and has exactly
\* one "duplicate keybind" diagnostic, on its node name.
C2_FirstKeptLaterReported ==
    \A i \in ValidIdx :
        IF FirstOfKey(i)
        THEN /\ Cardinality(BindsWithKey(KeyOf(i).key)) = 1
             /\ \A b \in BindsWithKey(KeyOf(i).key) : <<binds[b]>> = decoded[i].bind
             /\ DupDiags(i) = {}
        ELSE /\ Cardinality(DupDiags(i)) = 1
             /\ \A k \in DupDiags(i) : errors[k].span = "node_name"

\* Three nodes with one Key and different Binds: one kept, two reported.
C2_Witness ==
    /\ Len(children) = 3
    /\ Len(binds) = 1
    /\ decoded[1] # decoded[2] /\ decoded[2] # decoded[3]
    /\ DupDiags(2) # {} /\ DupDiags(3) # {}

\* C3: a node whose key parses and whose action is missing or fails to decode
\* yields the placeholder Bind with that Key, and a later sibling with the
\* same Key is reported as a duplicate and dropped.
C3_PlaceholderKeepsDuplicateDetection ==
    \A i \in ValidIdx :
        ActionBroken(children[i]) =>
            /\ decoded[i].ok
            /\ decoded[i].bind = <<dummy(KeyOf(i).key)>>
            /\ \A j \in ValidIdx :
                  j > i /\ KeyOf(j).key = KeyOf(i).key =>
                      /\ Cardinality(DupDiags(j)) = 1
                      /\ Cardinality(BindsWithKey(KeyOf(i).key)) = 1
                      /\ FirstOfKey(i) =>
                            \A b \in BindsWithKey(KeyOf(i).key) :
                                binds[b] = dummy(KeyOf(i).key)

\* A node with a broken action came first, a node with the same Key and a
\* valid action came later and was dropped.
C3_Witness ==
    \E i, j \in ValidIdx :
        /\ i < j
        /\ FirstOfKey(i)
        /\ ActionBroken(children[i])
        /\ ~ActionBroken(children[j])
        /\ KeyOf(j).key = KeyOf(i).key
        /\ DupDiags(j) # {}
        /\ \A b \in DOMAIN binds : binds[b] # decoded[j].bind[1]

\* C4: whenever the node name parses as a Key, Bind::decode_node returns a
\* Bind with that Key and the Key enters duplicate detection, whatever other
\* errors the node has.
C4_ParsedKeyAlwaysYieldsBind ==
    \A i \in DOMAIN children :
        KeyOf(i).ok =>
            /\ decoded[i].ok
            /\ decoded[i].bind[1].key = KeyOf(i).key
            /\ KeyOf(i).key \in seen_keys
            /\ IF FirstOfKey(i)
               THEN \E b \in DOMAIN binds : binds[b] = decoded[i].bind[1]
               ELSE DupDiags(i) # {}

\* A node with an unknown property, a property of the wrong type, two
\* children and an undecodable action was decoded, and a later node with its
\* Key was reported as a duplicate.
C4_Witness ==
    \E i, j \in ValidIdx :
        /\ i < j
        /\ FirstOfKey(i)
        /\ HasProp(children[i], "frobnicate")
        /\ HasProp(children[i], "repeat") /\ PropVal(children[i], "repeat").kind # "Bool"
        /\ Len(children[i].children) > 1
        /\ ActionBroken(children[i])
        /\ KeyOf(j).key = KeyOf(i).key
        /\ DupDiags(j) # {}

AwlDiags(i) == DiagsAt(i, "allow-when-locked can only be set on spawn binds")

\* C5: a node with allow-when-locked=true and an action outside the spawn
\* family produces a diagnostic and its Bind has allow_when_locked = FALSE.
C5_NonSpawnLockedFlagStaysFalse ==
    \A i \in ValidIdx :
        (/\ HasProp(children[i], "allow-when-locked")
         /\ PropVal(children[i], "allow-when-locked") = LitBool(TRUE)
         /\ ActionIn(children[i], AllVariants \ {"Spawn", "SpawnSh"}))
        => /\ AwlDiags(i) # {}
           /\ decoded[i].ok
           /\ decoded[i].bind[1].allow_when_locked = FALSE

\* C6: the "allow-when-locked can only be set on spawn binds" diagnostic is
\* emitted exactly for the nodes that carry the property, with either value,
\* and whose action decodes to a variant other than Spawn and SpawnSh; on a
\* Spawn or SpawnSh bind the Bind carries the stated value.
C6_LockedDiagnosticIff ==
    \A i \in DOMAIN children :
        /\ AwlDiags(i) # {}
              <=> /\ KeyOf(i).ok
                  /\ HasProp(children[i], "allow-when-locked")
                  /\ ActionIn(children[i], AllVariants \ {"Spawn", "SpawnSh"})
        /\ Cardinality(AwlDiags(i)) <= 1
        /\ (/\ KeyOf(i).ok
            /\ HasProp(children[i], "allow-when-locked")
            /\ PropVal(children[i], "allow-when-locked").kind = "Bool"
            /\ ActionIn(children[i], {"Spawn", "SpawnSh"}))
           => /\ decoded[i].ok
              /\ decoded[i].bind[1].allow_when_locked
                    = PropVal(children[i], "allow-when-locked").b

\* allow-when-locked=false on a non-spawn bind was reported, and
\* allow-when-locked=true on a spawn bind was accepted.
C6_Witness ==
    /\ \E i \in ValidIdx :
          /\ HasProp(children[i], "allow-when-locked")
          /\ PropVal(children[i], "allow-when-locked") = LitBool(FALSE)
          /\ ActionIn(children[i], {"FocusColumnLeft"})
          /\ AwlDiags(i) # {}
    /\ \E j \in ValidIdx :
          /\ HasProp(children[j], "allow-when-locked")
          /\ PropVal(children[j], "allow-when-locked") = LitBool(TRUE)
          /\ ActionIn(children[j], {"Spawn"})
          /\ AwlDiags(j) = {}
          /\ decoded[j].bind[1].allow_when_locked

\* C7: every Bind of the list whose action is ToggleKeyboardShortcutsInhibit
\* has allow_inhibiting = FALSE.
C7_ToggleInhibitNeverInhibitable ==
    \A b \in DOMAIN binds :
        binds[b].action.variant = "ToggleKeyboardShortcutsInhibit"
            => binds[b].allow_inhibiting = FALSE

\* A toggle-keyboard-shortcuts-inhibit bind that sets allow-inhibiting=true
\* is in the list.
C7_Witness ==
    \E i \in ValidIdx :
        /\ HasProp(children[i], "allow-inhibiting")
        /\ PropVal(children[i], "allow-inhibiting") = LitBool(TRUE)
        /\ ActionIn(children[i], {"ToggleKeyboardShortcutsInhibit"})
        /\ \E b \in DOMAIN binds : <<binds[b]>> = decoded[i].bind

\* The Binds of the first n nodes, had the nodes whose name is no Key been
\* absent: the Bind of every first node of a Key, in document order.
RECURSIVE KeptUpTo(_)
KeptUpTo(n) ==
    IF n = 0 THEN <<>>
    ELSE IF FirstOfKey(n) THEN KeptUpTo(n - 1) \o decoded[n].bind
    ELSE KeptUpTo(n - 1)

\* C8: a node whose name is no Key gives one "invalid keybind" error and no
\* Bind, and the list and the set of seen keys are those of the other nodes.
C8_InvalidKeySkipped ==
    /\ \A i \in DOMAIN children :
          ~KeyOf(i).ok =>
              /\ ~decoded[i].ok
              /\ decoded[i].bind = <<>>
              /\ Cardinality(DiagsAt(i, "invalid keybind")) = 1
              /\ DupDiags(i) = {}
    /\ binds = KeptUpTo(Len(children))
    /\ seen_keys = {KeyOf(i).key : i \in ValidIdx}

\* A node whose name is no Key stands between two nodes that were both kept.
C8_Witness ==
    /\ Len(children) = 3
    /\ KeyOf(1).ok /\ ~KeyOf(2).ok /\ KeyOf(3).ok
    /\ binds = decoded[1].bind \o decoded[3].bind


(***************************************************************************)
(* impl From<niri_ipc::Action> for Action.  A wire action is its name, its *)
(* optional target (a window id or a workspace reference, None when the    *)
(* wire type has no such field or the field is absent) and its other       *)
(* fields in declaration order.  Field values are tagged records.          *)
(***************************************************************************)
U64(n)  == [kind |-> "u64",    b |-> FALSE, n |-> n, s |-> ""]
Str(s)  == [kind |-> "String", b |-> FALSE, n |-> 0, s |-> s]
Bool(b) == [kind |-> "bool",   b |-> b,     n |-> 0, s |-> ""]

\* niri_ipc::WorkspaceReferenceArg
ArgId(n)    == [kind |-> "Arg::Id",    b |-> FALSE, n |-> n, s |-> ""]
ArgIndex(n) == [kind |-> "Arg::Index", b |-> FALSE, n |-> n, s |-> ""]
ArgName(s)  == [kind |-> "Arg::Name",  b |-> FALSE, n |-> 0, s |-> s]

\* WorkspaceReference
RefId(n)    == [kind |-> "Ref::Id",    b |-> FALSE, n |-> n, s |-> ""]
RefIndex(n) == [kind |-> "Ref::Index", b |-> FALSE, n |-> n, s |-> ""]
RefName(s)  == [kind |-> "Ref::Name",  b |-> FALSE, n |-> 0, s |-> s]

\* An Option<u64> carried inside an internal variant.
OptU64(target) ==
    IF target = None THEN [kind |-> "Option::None", b |-> FALSE, n |-> 0, s |-> ""]
    ELSE [kind |-> "Option::Some", b |-> FALSE, n |-> target[1].n, s |-> ""]

\* impl From<WorkspaceReferenceArg> for WorkspaceReference
WorkspaceReference_from(reference) ==
    CASE reference.kind = "Arg::Id"    -> RefId(reference.n)
      [] reference.kind = "Arg::Index" -> RefIndex(reference.n)
      [] reference.kind = "Arg::Name"  -> RefName(reference.s)

\* The fields an arm passes on: a workspace reference is converted, any other
\* field is moved as it is.
pass_fields(fields) ==
    [k \in DOMAIN fields |->
        IF fields[k].kind \in {"Arg::Id", "Arg::Index", "Arg::Name"}
        THEN WorkspaceReference_from(fields[k])
        ELSE fields[k]]

\* The wire actions matched by an `id: None` arm and an `id: Some(id)` arm (for
\* MoveWindowToWorkspace the field is `window_id`), with the variant of each.
WindowIdArms ==
    [ScreenshotWindow             |-> <<"ScreenshotWindow", "ScreenshotWindowById">>,
     CloseWindow                  |-> <<"CloseWindow", "CloseWindowById">>,
     FullscreenWindow             |-> <<"FullscreenWindow", "FullscreenWindowById">>,
     ToggleWindowedFullscreen     |-> <<"ToggleWindowedFullscreen", "ToggleWindowedFullscreenById">>,
     ConsumeOrExpelWindowLeft     |-> <<"ConsumeOrExpelWindowLeft", "ConsumeOrExpelWindowLeftById">>,
     ConsumeOrExpelWindowRight    |-> <<"ConsumeOrExpelWindowRight", "ConsumeOrExpelWindowRightById">>,
     CenterWindow                 |-> <<"CenterWindow", "CenterWindowById">>,
     MoveWindowToWorkspace        |-> <<"MoveWindowToWorkspace", "MoveWindowToWorkspaceById">>,
     MoveWindowToMonitor          |-> <<"MoveWindowToMonitor", "MoveWindowToMonitorById">>,
     SetWindowWidth               |-> <<"SetWindowWidth", "SetWindowWidthById">>,
     SetWindowHeight              |-> <<"SetWindowHeight", "SetWindowHeightById">>,
     ResetWindowHeight            |-> <<"ResetWindowHeight", "ResetWindowHeightById">>,
     SwitchPresetWindowWidth      |-> <<"SwitchPresetWindowWidth", "SwitchPresetWindowWidthById">>,
     SwitchPresetWindowWidthBack  |-> <<"SwitchPresetWindowWidthBack", "SwitchPresetWindowWidthBackById">>,
     SwitchPresetWindowHeight     |-> <<"SwitchPresetWindowHeight", "SwitchPresetWindowHeightById">>,
     SwitchPresetWindowHeightBack |-> <<"SwitchPresetWindowHeightBack", "SwitchPresetWindowHeightBackById">>,
     MaximizeWindowToEdges        |-> <<"MaximizeWindowToEdges", "MaximizeWindowToEdgesById">>,
     ToggleWindowFloating         |-> <<"ToggleWindowFloating", "ToggleWindowFloatingById">>,
     MoveWindowToFloating         |-> <<"MoveWindowToFloating", "MoveWindowToFloatingById">>,
     MoveWindowToTiling           |-> <<"MoveWindowToTiling", "MoveWindowToTilingById">>,
     ToggleWindowRuleOpacity      |-> <<"ToggleWindowRuleOpacity", "ToggleWindowRuleOpacityById">>,
     SetDynamicCastWindow         |-> <<"SetDynamicCastWindow", "SetDynamicCastWindowById">>]

\* The wire actions matched by a `None` arm and a `Some(reference)` arm.
WorkspaceRefArms ==
    [SetWorkspaceName       |-> <<"SetWorkspaceName", "SetWorkspaceNameByRef">>,
     UnsetWorkspaceName     |-> <<"UnsetWorkspaceName", "UnsetWorkSpaceNameByRef">>,
     MoveWorkspaceToIndex   |-> <<"MoveWorkspaceToIndex", "MoveWorkspaceToIndexByRef">>,
     MoveWorkspaceToMonitor |-> <<"MoveWorkspaceToMonitor", "MoveWorkspaceToMonitorByRef">>]

\* A variant of window_id_arm that lets the `id: None` arm match every value.
window_id_arm_drops_id(variants, target, fields) == Act(variants[1], pass_fields(fields))

\* The pair of arms of a window action: the id leads the ById variant's fields.
window_id_arm(variants, target, fields) ==
    IF target = None
    THEN Act(variants[1], pass_fields(fields))
    ELSE Act(variants[2], <<target[1]>> \o pass_fields(fields))

\* The pair of arms of a workspace action: the converted reference is the last
\* field of the ByRef variant.
workspace_ref_arm(variants, target, fields) ==
    IF target = None
    THEN Act(variants[1], pass_fields(fields))
    ELSE Act(variants[2], Append(pass_fields(fields), WorkspaceReference_from(target[1])))

\* Action::from(value)
Action_from_ipc(value) ==
    IF value.name \in DOMAIN WindowIdArms
    THEN window_id_arm(WindowIdArms[value.name], value.target, value.fields)
    ELSE IF value.name \in DOMAIN WorkspaceRefArms
    THEN workspace_ref_arm(WorkspaceRefArms[value.name], value.target, value.fields)
    ELSE IF value.name = "MoveFloatingWindow"
    THEN Act("MoveFloatingWindowById", <<OptU64(value.target)>> \o pass_fields(value.fields))
    ELSE Act(value.name, pass_fields(value.fields))

(***************************************************************************)
(* The wire actions handed to the translation.                             *)
(***************************************************************************)
Ipc(name, optional, target, fields) ==
    [name |-> name, optional |-> optional, target |-> target, fields |-> fields]

WindowTargets    == {None, Some(U64(1)), Some(U64(2))}
WorkspaceTargets == {None, Some(ArgId(1)), Some(ArgIndex(2)), Some(ArgName("w"))}

\* The other fields of the wire actions that have an optional target.
IpcFields ==
    [n \in DOMAIN WindowIdArms \cup DOMAIN WorkspaceRefArms \cup {"MoveFloatingWindow"} |->
        CASE n = "ScreenshotWindow"       -> <<Bool(TRUE), Str("shot.png")>>
          [] n = "MoveWindowToWorkspace"  -> <<ArgIndex(3), Bool(TRUE)>>
          [] n = "MoveWindowToMonitor"    -> <<Str("eDP-1")>>
          [] n = "SetWindowWidth"         -> <<Str("+10%")>>
          [] n = "SetWindowHeight"        -> <<Str("-10%")>>
          [] n = "SetWorkspaceName"       -> <<Str("mail")>>
          [] n = "MoveWorkspaceToIndex"   -> <<U64(2)>>
          [] n = "MoveWorkspaceToMonitor" -> <<Str("eDP-1")>>
          [] n = "MoveFloatingWindow"     -> <<Str("+10"), Str("-10")>>
          [] OTHER -> <<>>]

IpcInputs ==
    {Ipc(n, TRUE, t, IpcFields[n]) : n \in DOMAIN WindowIdArms, t \in WindowTargets}
    \cup {Ipc(n, TRUE, t, IpcFields[n]) : n \in DOMAIN WorkspaceRefArms, t \in WorkspaceTargets}
    \cup {Ipc("MoveFloatingWindow", TRUE, t, IpcFields["MoveFloatingWindow"]) :
             t \in WindowTargets}
    \cup {Ipc("Quit", FALSE, None, <<Bool(TRUE)>>),
          Ipc("Spawn", FALSE, None, <<Str("foot")>>),
          Ipc("FocusWindow", FALSE, None, <<U64(1)>>),
          Ipc("FocusWindow", FALSE, None, <<U64(2)>>),
          Ipc("ToggleWindowUrgent", FALSE, None, <<U64(1)>>),
          Ipc("FocusWorkspace", FALSE, None, <<ArgName("w")>>),
          Ipc("MoveColumnToWorkspace", FALSE, None, <<ArgId(1), Bool(FALSE)>>),
          Ipc("FocusColumnLeft", FALSE, None, <<>>),
          Ipc("ToggleOverview", FALSE, None, <<>>),
          Ipc("LoadConfigFile", FALSE, None, <<>>)}

MaxTranslated == 2

InitIpc ==
    /\ parsed = <<>>
    /\ children = <<>>
    /\ decoded = <<>>
    /\ seen_keys = {}
    /\ binds = <<>>
    /\ errors = <<>>
    /\ translated = {}
    /\ IdleMerge
    /\ IdleRules
    /\ IdleModKey
    /\ IdleScroll
    /\ IdleKdeWm
    /\ IdleOrder
    /\ IdleRegion
    /\ IdleLayer
    /\ IdleBackend

\* `Action::from(value)` on one more wire action.
TranslateIpc ==
    /\ Cardinality(translated) < MaxTranslated
    /\ \E value \in IpcInputs :
          translated' = translated \cup {[value |-> value, action |-> Action_from_ipc(value)]}
    /\ UNCHANGED notIpcVars

NextIpc == TranslateIpc

SpecIpc == InitIpc /\ [][NextIpc]_vars

(***************************************************************************)
(* Claims about the translation of wire actions (checked under SpecIpc).   *)
(***************************************************************************)
\* The variants marked #[knus(skip)] in the Action enum: the config grammar
\* has no node for them.
SkippedVariants ==
    {"ChangeVt", "ConfirmScreenshot", "CancelScreenshot", "ScreenshotTogglePointer",
     "ScreenshotWindowById", "CloseWindowById", "FullscreenWindowById",
     "ToggleWindowedFullscreenById", "FocusWindow", "FocusColumnLeftUnderMouse",
     "FocusColumnRightUnderMouse", "ConsumeOrExpelWindowLeftById",
     "ConsumeOrExpelWindowRightById", "CenterWindowById",
     "FocusWorkspaceDownUnderMouse", "FocusWorkspaceUpUnderMouse",
     "MoveWindowToWorkspaceById", "MoveWorkspaceToIndexByRef",
     "MoveWorkspaceToMonitorByRef", "SetWorkspaceNameByRef", "UnsetWorkSpaceNameByRef",
     "MoveWindowToMonitorById", "SetWindowWidthById", "SetWindowHeightById",
     "ResetWindowHeightById", "SwitchPresetWindowWidthById",
     "SwitchPresetWindowWidthBackById", "SwitchPresetWindowHeightById",
     "SwitchPresetWindowHeightBackById", "MaximizeWindowToEdgesById",
     "ToggleWindowFloatingById", "MoveWindowToFloatingById", "MoveWindowToTilingById",
     "MoveFloatingWindowById", "ToggleWindowRuleOpacityById",
     "SetDynamicCastWindowById", "ToggleWindowUrgent", "SetWindowUrgent",
     "UnsetWindowUrgent", "LoadConfigFile", "MruAdvance", "MruConfirm", "MruCancel",
     "MruCloseCurrentWindow", "MruFirst", "MruLast", "MruSetScope", "MruCycleScope"}

\* The internal action carries the target x of the wire action among its fields.
CarriesTarget(action, x) ==
    \E k \in DOMAIN action.args :
        \/ action.args[k] = x
        \/ /\ <<x.kind, action.args[k].kind>> \in
                 {<<"Arg::Id", "Ref::Id">>, <<"Arg::Index", "Ref::Index">>,
                  <<"Arg::Name", "Ref::Name">>}
           /\ action.args[k].n = x.n
           /\ action.args[k].s = x.s

\* The wire action with its target absent maps to a variant of the grammar,
\* with its target present to an internal-only variant that carries it.
SplitsOnTarget(t) ==
    IF t.value.target = None
    THEN t.action.variant \notin SkippedVariants
    ELSE /\ t.action.variant \in SkippedVariants
         /\ CarriesTarget(t.action, t.value.target[1])

\* Two translations of one wire action have the same variant exactly when
\* the target is absent in both or present in both.
TwoVariants(t, u) ==
    (t.action.variant = u.action.variant)
        <=> ((t.value.target = None) <=> (u.value.target = None))

\* C12 as stated: every wire action with an optional target maps to the
\* "current" variant when the target is absent and to a different ById/ByRef
\* variant carrying the target when it is present, hence to exactly two
\* internal variants.
C12_EveryOptionalTargetSplits ==
    /\ \A t \in translated : t.value.optional => SplitsOnTarget(t)
    /\ \A t, u \in translated :
          t.value.optional /\ t.value.name = u.value.name => TwoVariants(t, u)

\* C12 amended: the same for every wire action with an optional target other
\* than MoveFloatingWindow; MoveFloatingWindow maps to the one internal-only
\* variant MoveFloatingWindowById, which carries the optional id as given.
C12_OptionalTargetSplitsButMoveFloating ==
    /\ \A t \in translated :
          t.value.optional /\ t.value.name # "MoveFloatingWindow" => SplitsOnTarget(t)
    /\ \A t, u \in translated :
          /\ t.value.optional
          /\ t.value.name # "MoveFloatingWindow"
          /\ t.value.name = u.value.name
          => TwoVariants(t, u)
    /\ \A t \in translated :
          t.value.name = "MoveFloatingWindow" =>
             /\ t.action.variant = "MoveFloatingWindowById"
             /\ IF t.value.target = None
                THEN t.action.args[1].kind = "Option::None"
                ELSE /\ t.action.args[1].kind = "Option::Some"
                     /\ t.action.args[1].n = t.value.target[1].n

\* One wire action has been translated with its target absent and with its
\* target present, and the two results differ in their variant.
C12_Witness ==
    \E t, u \in translated :
        /\ t.value.optional
        /\ t.value.name = u.value.name
        /\ t.value.name # "MoveFloatingWindow"
        /\ t.value.target = None
        /\ u.value.target # None
        /\ t.action.variant # u.action.variant

(***************************************************************************)
(* Claims about the actions of decoded binds (checked under Spec).         *)
(***************************************************************************)
\* The node's first child names a variant that is marked #[knus(skip)].
NamesSkippedVariant(node) ==
    /\ node.children # <<>>
    /\ Head(node.children).name \in SkippedActionNames

\* C13: no Bind that Bind::decode_node returns, and so no Bind of the decoded
\* list, carries an internal-only Action variant; a node whose action child
\* names such a variant yields the placeholder Bind, whose action is Spawn.
C13_NoInternalOnlyActionInBinds ==
    /\ \A b \in DOMAIN binds : binds[b].action.variant \notin SkippedVariants
    /\ \A i \in DOMAIN decoded :
          decoded[i].ok =>
             /\ decoded[i].bind[1].action.variant \notin SkippedVariants
             /\ NamesSkippedVariant(children[i])
                   => decoded[i].bind = <<dummy(KeyOf(i).key)>>

\* The list holds the placeholder Binds of two nodes whose action children
\* name internal-only variants.
C13_Witness ==
    \E i, j \in ValidIdx :
        /\ i # j
        /\ NamesSkippedVariant(children[i])
        /\ NamesSkippedVariant(children[j])
        /\ Head(children[i].children).name # Head(children[j].children).name
        /\ \E b \in DOMAIN binds : <<binds[b]>> = decoded[i].bind
        /\ \E b \in DOMAIN binds : <<binds[b]>> = decoded[j].bind

(***************************************************************************)
(* The Full/Part merge model.  A Part field is None or Some(value).        *)
(* MergeWith, Flag and the merge!, merge_clone! and merge_clone_opt!       *)
(* macros belong to crate::utils.                                          *)
(***************************************************************************)
\* utils::Flag, the value of a flag node.
Flag(b) == [value |-> b]

\* merge_clone!: a present Part field overwrites the Full field.
merge_clone(self_field, part_field) ==
    IF part_field = None THEN self_field ELSE part_field[1]

\* merge_clone_opt!, for a Full field that is an Option itself.
merge_clone_opt(self_field, part_field) ==
    IF part_field = None THEN self_field ELSE part_field

\* merge!: `if let Some(x) = &part.field { self.field.merge_with(x); }`.
\* `merged` is self.field.merge_with(x), with the merge_with of the field's
\* type; it is looked at only when the Part has the field.
merge(self_field, part_field, merged) ==
    IF part_field = None THEN self_field ELSE merged

\* MergeWith<Flag> for bool: an explicit true is OR-ed over the value.
bool_merge_with(self, flag) == self \/ flag.value

\* MergeWith<FloatOrInt> for f64: the number overwrites the value.
f64_merge_with(self, x) == x

(***************************************************************************)
(* misc.rs: Cursor, HotkeyOverlay, Clipboard.                              *)
(***************************************************************************)
Cursor_default ==
    [xcursor_theme |-> "default",
     xcursor_size |-> 24,
     hide_when_typing |-> FALSE,
     hide_after_inactive_ms |-> None]

CursorPart(xcursor_theme, xcursor_size, hide_when_typing, hide_after_inactive_ms) ==
    [xcursor_theme |-> xcursor_theme,
     xcursor_size |-> xcursor_size,
     hide_when_typing |-> hide_when_typing,
     hide_after_inactive_ms |-> hide_after_inactive_ms]

\* A variant of Cursor_merge_with in which a field, once set, is kept.
Cursor_merge_with_first_wins(self, part) ==
    [xcursor_theme |->
        IF self.xcursor_theme = Cursor_default.xcursor_theme
        THEN merge_clone(self.xcursor_theme, part.xcursor_theme)
        ELSE self.xcursor_theme,
     xcursor_size |->
        IF self.xcursor_size = Cursor_default.xcursor_size
        THEN merge_clone(self.xcursor_size, part.xcursor_size)
        ELSE self.xcursor_size,
     hide_when_typing |-> merge(self.hide_when_typing, part.hide_when_typing, bool_merge_with(self.hide_when_typing, part.hide_when_typing[1])),
     hide_after_inactive_ms |->
        merge_clone_opt(self.hide_after_inactive_ms, part.hide_after_inactive_ms)]

\* impl MergeWith<CursorPart> for Cursor
Cursor_merge_with(self, part) ==
    [xcursor_theme |-> merge_clone(self.xcursor_theme, part.xcursor_theme),
     xcursor_size |-> merge_clone(self.xcursor_size, part.xcursor_size),
     hide_when_typing |-> merge(self.hide_when_typing, part.hide_when_typing, bool_merge_with(self.hide_when_typing, part.hide_when_typing[1])),
     hide_after_inactive_ms |->
        merge_clone_opt(self.hide_after_inactive_ms, part.hide_after_inactive_ms)]

\* #[derive(Default)] for HotkeyOverlay
HotkeyOverlay_default == [skip_at_startup |-> FALSE, hide_not_bound |-> FALSE]

HotkeyOverlayPart(skip_at_startup, hide_not_bound) ==
    [skip_at_startup |-> skip_at_startup, hide_not_bound |-> hide_not_bound]

\* A variant of HotkeyOverlay_merge_with that copies the flag's value.
HotkeyOverlay_merge_with_assigns(self, part) ==
    [skip_at_startup |->
        IF part.skip_at_startup = None THEN self.skip_at_startup
        ELSE part.skip_at_startup[1].value,
     hide_not_bound |->
        IF part.hide_not_bound = None THEN self.hide_not_bound
        ELSE part.hide_not_bound[1].value]

\* impl MergeWith<HotkeyOverlayPart> for HotkeyOverlay
HotkeyOverlay_merge_with(self, part) ==
    [skip_at_startup |-> merge(self.skip_at_startup, part.skip_at_startup, bool_merge_with(self.skip_at_startup, part.skip_at_startup[1])),
     hide_not_bound |-> merge(self.hide_not_bound, part.hide_not_bound, bool_merge_with(self.hide_not_bound, part.hide_not_bound[1]))]

\* #[derive(Default)] for Clipboard
Clipboard_default == [disable_primary |-> FALSE]

ClipboardPart(disable_primary) == [disable_primary |-> disable_primary]

\* impl MergeWith<ClipboardPart> for Clipboard
Clipboard_merge_with(self, part) ==
    [disable_primary |-> merge(self.disable_primary, part.disable_primary, bool_merge_with(self.disable_primary, part.disable_primary[1]))]

(***************************************************************************)
(* input.rs: Input and Keyboard.  The device sections (Touchpad, Mouse,    *)
(* Trackpoint, Trackball, Tablet, Touch) have one type only, decoded with  *)
(* a default for every child that the document leaves out; of their many   *)
(* fields each keeps two to four here.                                     *)
(***************************************************************************)
\* #[derive(Default)] for Xkb
Xkb_default == [layout |-> "", variant |-> "", options |-> None]

Keyboard_default ==
    [xkb |-> Xkb_default,
     repeat_delay |-> 600,
     repeat_rate |-> 25,
     track_layout |-> "Global",
     numlock |-> FALSE]

KeyboardPart(xkb, repeat_delay, repeat_rate, track_layout, numlock) ==
    [xkb |-> xkb,
     repeat_delay |-> repeat_delay,
     repeat_rate |-> repeat_rate,
     track_layout |-> track_layout,
     numlock |-> numlock]

\* A variant of Keyboard_merge_with whose macro call leaves out repeat_rate.
Keyboard_merge_with_skips_repeat_rate(self, part) ==
    [xkb |-> merge_clone(self.xkb, part.xkb),
     repeat_delay |-> merge_clone(self.repeat_delay, part.repeat_delay),
     repeat_rate |-> self.repeat_rate,
     track_layout |-> merge_clone(self.track_layout, part.track_layout),
     numlock |-> merge(self.numlock, part.numlock, bool_merge_with(self.numlock, part.numlock[1]))]

\* A variant of Keyboard_merge_with that builds the section anew from the Part.
Keyboard_merge_with_from_default(self, part) ==
    [xkb |-> merge_clone(Keyboard_default.xkb, part.xkb),
     repeat_delay |-> merge_clone(Keyboard_default.repeat_delay, part.repeat_delay),
     repeat_rate |-> merge_clone(Keyboard_default.repeat_rate, part.repeat_rate),
     track_layout |-> merge_clone(Keyboard_default.track_layout, part.track_layout),
     numlock |-> merge(Keyboard_default.numlock, part.numlock, bool_merge_with(Keyboard_default.numlock, part.numlock[1]))]

\* impl MergeWith<KeyboardPart> for Keyboard
Keyboard_merge_with(self, part) ==
    [xkb |-> merge_clone(self.xkb, part.xkb),
     repeat_delay |-> merge_clone(self.repeat_delay, part.repeat_delay),
     repeat_rate |-> merge_clone(self.repeat_rate, part.repeat_rate),
     track_layout |-> merge_clone(self.track_layout, part.track_layout),
     numlock |-> merge(self.numlock, part.numlock, bool_merge_with(self.numlock, part.numlock[1]))]

\* #[derive(Default)] for Input and for its device sections
Input_default ==
    [keyboard |-> Keyboard_default,
     touchpad |-> [off |-> FALSE, tap |-> FALSE, natural_scroll |-> FALSE,
                   scroll_button |-> None],
     mouse |-> [off |-> FALSE, natural_scroll |-> FALSE, scroll_button |-> None],
     trackpoint |-> [off |-> FALSE, natural_scroll |-> FALSE],
     trackball |-> [off |-> FALSE, natural_scroll |-> FALSE],
     tablet |-> [off |-> FALSE, map_to_output |-> None, left_handed |-> FALSE],
     touch |-> [off |-> FALSE, map_to_output |-> None],
     disable_power_key_handling |-> FALSE,
     warp_mouse_to_focus |-> None,
     focus_follows_mouse |-> None,
     workspace_auto_back_and_forth |-> FALSE,
     mod_key |-> None,
     mod_key_nested |-> None]

\* #[derive(Default)] for InputPart: the Part of an empty `input` section.
InputPart_default ==
    [keyboard |-> None,
     touchpad |-> None,
     mouse |-> None,
     trackpoint |-> None,
     trackball |-> None,
     tablet |-> None,
     touch |-> None,
     disable_power_key_handling |-> None,
     warp_mouse_to_focus |-> None,
     focus_follows_mouse |-> None,
     workspace_auto_back_and_forth |-> None,
     mod_key |-> None,
     mod_key_nested |-> None]

\* impl MergeWith<InputPart> for Input
Input_merge_with(self, part) ==
    [keyboard |-> merge(self.keyboard, part.keyboard, Keyboard_merge_with(self.keyboard, part.keyboard[1])),
     disable_power_key_handling |->
        merge(self.disable_power_key_handling, part.disable_power_key_handling,
              bool_merge_with(self.disable_power_key_handling, part.disable_power_key_handling[1])),
     workspace_auto_back_and_forth |->
        merge(self.workspace_auto_back_and_forth, part.workspace_auto_back_and_forth,
              bool_merge_with(self.workspace_auto_back_and_forth, part.workspace_auto_back_and_forth[1])),
     touchpad |-> merge_clone(self.touchpad, part.touchpad),
     mouse |-> merge_clone(self.mouse, part.mouse),
     trackpoint |-> merge_clone(self.trackpoint, part.trackpoint),
     trackball |-> merge_clone(self.trackball, part.trackball),
     tablet |-> merge_clone(self.tablet, part.tablet),
     touch |-> merge_clone(self.touch, part.touch),
     warp_mouse_to_focus |-> merge_clone_opt(self.warp_mouse_to_focus, part.warp_mouse_to_focus),
     focus_follows_mouse |-> merge_clone_opt(self.focus_follows_mouse, part.focus_follows_mouse),
     mod_key |-> merge_clone_opt(self.mod_key, part.mod_key),
     mod_key_nested |-> merge_clone_opt(self.mod_key_nested, part.mod_key_nested)]

(***************************************************************************)
(* layout.rs: Layout.  The appearance sections (focus_ring, border, blur,  *)
(* shadow, tab_indicator, insert_hint) are left out: their types and merge *)
(* rules belong to appearance.rs.                                          *)
(***************************************************************************)
Proportion(num, den) == [kind |-> "Proportion", num |-> num, den |-> den]
Fixed(px)            == [kind |-> "Fixed", num |-> px, den |-> 1]

\* pub struct DefaultPresetSize(pub Option<PresetSize>)
DefaultPresetSize(size) == [size |-> size]

Layout_default ==
    [preset_column_widths |-> <<Proportion(1, 3), Proportion(1, 2), Proportion(2, 3)>>,
     default_column_width |-> Some(Proportion(1, 2)),
     center_focused_column |-> "Never",
     always_center_single_column |-> FALSE,
     empty_workspace_above_first |-> FALSE,
     gaps |-> 16,
     struts |-> [left |-> 0, right |-> 0, top |-> 0, bottom |-> 0],
     preset_window_heights |-> <<Proportion(1, 3), Proportion(1, 2), Proportion(2, 3)>>,
     background_color |-> "DEFAULT_BACKGROUND_COLOR"]

\* #[derive(Default)] for LayoutPart: the Part of an empty `layout` section.
LayoutPart_default ==
    [preset_column_widths |-> None,
     default_column_width |-> None,
     preset_window_heights |-> None,
     center_focused_column |-> None,
     always_center_single_column |-> None,
     empty_workspace_above_first |-> None,
     gaps |-> None,
     struts |-> None,
     background_color |-> None]

\* A variant of revert_if_empty that keeps the list a Part has emptied.
revert_if_empty_never(list, default_list) == list

\* `if self.preset_column_widths.is_empty() { ... = Self::default()... }`
revert_if_empty(list, default_list) == IF list = <<>> THEN default_list ELSE list

\* impl MergeWith<LayoutPart> for Layout
Layout_merge_with(self, part) ==
    [always_center_single_column |->
        merge(self.always_center_single_column, part.always_center_single_column,
              bool_merge_with(self.always_center_single_column, part.always_center_single_column[1])),
     empty_workspace_above_first |->
        merge(self.empty_workspace_above_first, part.empty_workspace_above_first,
              bool_merge_with(self.empty_workspace_above_first, part.empty_workspace_above_first[1])),
     gaps |-> merge(self.gaps, part.gaps, f64_merge_with(self.gaps, part.gaps[1])),
     preset_column_widths |->
        revert_if_empty(merge_clone(self.preset_column_widths, part.preset_column_widths),
                        Layout_default.preset_column_widths),
     preset_window_heights |->
        revert_if_empty(merge_clone(self.preset_window_heights, part.preset_window_heights),
                        Layout_default.preset_window_heights),
     center_focused_column |->
        merge_clone(self.center_focused_column, part.center_focused_column),
     struts |-> merge_clone(self.struts, part.struts),
     background_color |-> merge_clone(self.background_color, part.background_color),
     default_column_width |->
        IF part.default_column_width = None THEN self.default_column_width
        ELSE part.default_column_width[1].size]

(***************************************************************************)
(* gestures.rs: Gestures.                                                  *)
(***************************************************************************)
DndEdgeViewScroll_default == [trigger_width |-> 30, delay_ms |-> 100, max_speed |-> 1500]

DndEdgeViewScrollPart(trigger_width, delay_ms, max_speed) ==
    [trigger_width |-> trigger_width, delay_ms |-> delay_ms, max_speed |-> max_speed]

\* impl MergeWith<DndEdgeViewScrollPart> for DndEdgeViewScroll
DndEdgeViewScroll_merge_with(self, part) ==
    [trigger_width |-> merge(self.trigger_width, part.trigger_width, f64_merge_with(self.trigger_width, part.trigger_width[1])),
     max_speed |-> merge(self.max_speed, part.max_speed, f64_merge_with(self.max_speed, part.max_speed[1])),
     delay_ms |-> merge_clone(self.delay_ms, part.delay_ms)]

DndEdgeWorkspaceSwitch_default ==
    [trigger_height |-> 50, delay_ms |-> 100, max_speed |-> 1500]

DndEdgeWorkspaceSwitchPart(trigger_height, delay_ms, max_speed) ==
    [trigger_height |-> trigger_height, delay_ms |-> delay_ms, max_speed |-> max_speed]

\* impl MergeWith<DndEdgeWorkspaceSwitchPart> for DndEdgeWorkspaceSwitch
DndEdgeWorkspaceSwitch_merge_with(self, part) ==
    [trigger_height |-> merge(self.trigger_height, part.trigger_height, f64_merge_with(self.trigger_height, part.trigger_height[1])),
     max_speed |-> merge(self.max_speed, part.max_speed, f64_merge_with(self.max_speed, part.max_speed[1])),
     delay_ms |-> merge_clone(self.delay_ms, part.delay_ms)]

\* #[derive(Default)] for Gestures and HotCorners
Gestures_default ==
    [dnd_edge_view_scroll |-> DndEdgeViewScroll_default,
     dnd_edge_workspace_switch |-> DndEdgeWorkspaceSwitch_default,
     hot_corners |-> [off |-> FALSE, top_left |-> FALSE, top_right |-> FALSE,
                      bottom_left |-> FALSE, bottom_right |-> FALSE]]

GesturesPart(dnd_edge_view_scroll, dnd_edge_workspace_switch, hot_corners) ==
    [dnd_edge_view_scroll |-> dnd_edge_view_scroll,
     dnd_edge_workspace_switch |-> dnd_edge_workspace_switch,
     hot_corners |-> hot_corners]

\* impl MergeWith<GesturesPart> for Gestures
Gestures_merge_with(self, part) ==
    [dnd_edge_view_scroll |->
        merge(self.dnd_edge_view_scroll, part.dnd_edge_view_scroll,
              DndEdgeViewScroll_merge_with(self.dnd_edge_view_scroll, part.dnd_edge_view_scroll[1])),
     dnd_edge_workspace_switch |->
        merge(self.dnd_edge_workspace_switch, part.dnd_edge_workspace_switch,
              DndEdgeWorkspaceSwitch_merge_with(self.dnd_edge_workspace_switch, part.dnd_edge_workspace_switch[1])),
     hot_corners |-> merge_clone(self.hot_corners, part.hot_corners)]

(***************************************************************************)
(* misc.rs: XwaylandSatellite.  Its Part has the plain bools off and on: a *)
(* child node that is there is true.                                       *)
(***************************************************************************)
\* impl Default for XwaylandSatellite
XwaylandSatellite_default == [off |-> FALSE, path |-> "xwayland-satellite"]

XwaylandSatellitePart(off, on, path) == [off |-> off, on |-> on, path |-> path]

\* A variant of the merge in which an `off` of the Part flips the switch.
XwaylandSatellite_merge_with_toggles(self, part) ==
    [off |-> IF part.on THEN FALSE ELSE (self.off # part.off),
     path |-> merge_clone(self.path, part.path)]

\* A variant of XwaylandSatellite_merge_with that looks at `on` before `off`.
XwaylandSatellite_merge_with_off_wins(self, part) ==
    [off |-> (IF part.on THEN FALSE ELSE self.off) \/ part.off,
     path |-> merge_clone(self.path, part.path)]

\* impl MergeWith<XwaylandSatellitePart> for XwaylandSatellite
XwaylandSatellite_merge_with(self, part) ==
    [off |-> IF part.on THEN FALSE ELSE self.off \/ part.off,
     path |-> merge_clone(self.path, part.path)]

(***************************************************************************)
(* The Parts of the included files, and the merge of each into the Full    *)
(* value of its section.                                                   *)
(***************************************************************************)
CursorParts ==
    { CursorPart(None, None, None, None),
      CursorPart(Some("Adwaita"), Some(32), None, None),
      CursorPart(Some("Bibata"), None, Some(Flag(TRUE)), Some(1000)),
      CursorPart(None, Some(48), Some(Flag(FALSE)), Some(3000)) }

HotkeyOverlayParts ==
    { HotkeyOverlayPart(Some(Flag(TRUE)), None),
      HotkeyOverlayPart(Some(Flag(FALSE)), Some(Flag(TRUE))),
      HotkeyOverlayPart(None, Some(Flag(FALSE))) }

ClipboardParts == { ClipboardPart(Some(Flag(TRUE))), ClipboardPart(Some(Flag(FALSE))) }

InputParts ==
    { InputPart_default,
      [InputPart_default EXCEPT
          !.keyboard = Some(KeyboardPart(None, Some(300), None, None, Some(Flag(TRUE))))],
      [InputPart_default EXCEPT
          !.keyboard = Some(KeyboardPart(Some([Xkb_default EXCEPT !.layout = "de"]),
                                         None, Some(50), Some("Window"), None)),
          !.disable_power_key_handling = Some(Flag(TRUE)),
          !.mod_key = Some("Alt")],
      [InputPart_default EXCEPT
          !.keyboard = Some(KeyboardPart(None, Some(200), None, None, Some(Flag(FALSE)))),
          !.disable_power_key_handling = Some(Flag(FALSE)),
          !.workspace_auto_back_and_forth = Some(Flag(TRUE))],
      [InputPart_default EXCEPT
          !.keyboard = Some(KeyboardPart(None, Some(600), None, None, None)),
          !.touchpad = Some([Input_default.touchpad EXCEPT !.off = TRUE]),
          !.mouse = Some([Input_default.mouse EXCEPT !.natural_scroll = TRUE]),
          !.trackpoint = Some([Input_default.trackpoint EXCEPT !.off = TRUE]),
          !.trackball = Some([Input_default.trackball EXCEPT !.off = TRUE]),
          !.tablet = Some([Input_default.tablet EXCEPT !.off = TRUE]),
          !.touch = Some([Input_default.touch EXCEPT !.off = TRUE])],
      [InputPart_default EXCEPT
          !.keyboard = Some(KeyboardPart(None, None, Some(25), None, None)),
          !.touchpad = Some([Input_default.touchpad EXCEPT !.tap = TRUE, !.scroll_button = Some(273)]),
          !.mouse = Some([Input_default.mouse EXCEPT !.off = TRUE]),
          !.trackpoint = Some([Input_default.trackpoint EXCEPT !.natural_scroll = TRUE]),
          !.trackball = Some([Input_default.trackball EXCEPT !.natural_scroll = TRUE]),
          !.tablet = Some([Input_default.tablet EXCEPT !.left_handed = TRUE]),
          !.touch = Some([Input_default.touch EXCEPT !.map_to_output = Some("eDP-1")])],
      [InputPart_default EXCEPT
          !.touchpad = Some([Input_default.touchpad EXCEPT !.natural_scroll = TRUE]),
          !.warp_mouse_to_focus = Some("center-xy"),
          !.mod_key_nested = Some("Super")] }

LayoutParts ==
    { LayoutPart_default,
      [LayoutPart_default EXCEPT
          !.preset_column_widths = Some(<<Fixed(640)>>),
          !.gaps = Some(8)],
      [LayoutPart_default EXCEPT
          !.preset_column_widths = Some(<<>>),
          !.preset_window_heights = Some(<<Proportion(1, 4), Fixed(480)>>),
          !.center_focused_column = Some("Always")],
      [LayoutPart_default EXCEPT
          !.preset_window_heights = Some(<<>>),
          !.gaps = Some(0),
          !.default_column_width = Some(DefaultPresetSize(None)),
          !.always_center_single_column = Some(Flag(TRUE))],
      [LayoutPart_default EXCEPT
          !.default_column_width = Some(DefaultPresetSize(Some(Fixed(800)))),
          !.struts = Some([Layout_default.struts EXCEPT !.left = 4]),
          !.background_color = Some("#101010"),
          !.center_focused_column = Some("OnOverflow"),
          !.empty_workspace_above_first = Some(Flag(TRUE))] }

GesturesParts ==
    { GesturesPart(Some(DndEdgeViewScrollPart(Some(10), None, None)), None, None),
      GesturesPart(Some(DndEdgeViewScrollPart(None, Some(50), Some(900))),
                   Some(DndEdgeWorkspaceSwitchPart(Some(20), None, None)), None),
      GesturesPart(None, Some(DndEdgeWorkspaceSwitchPart(None, Some(10), None)),
                   Some([Gestures_default.hot_corners EXCEPT !.off = TRUE])) }

XwaylandSatelliteParts ==
    { XwaylandSatellitePart(off, on, path) :
        off \in BOOLEAN, on \in BOOLEAN, path \in {None, Some("/usr/bin/xwls")} }

MaxParts == 2

\* The Full value of every section as its all-defaults constructor gives it.
Config_default ==
    [cursor |-> Cursor_default,
     hotkey_overlay |-> HotkeyOverlay_default,
     clipboard |-> Clipboard_default,
     input |-> Input_default,
     layout |-> Layout_default,
     gestures |-> Gestures_default,
     xwayland_satellite |-> XwaylandSatellite_default]

InitMerge ==
    /\ parsed = <<>>
    /\ children = <<>>
    /\ decoded = <<>>
    /\ seen_keys = {}
    /\ binds = <<>>
    /\ errors = <<>>
    /\ translated = {}
    /\ config = Config_default
    /\ config_before = Config_default
    /\ merged_parts = <<>>
    /\ IdleRules
    /\ IdleModKey
    /\ IdleScroll
    /\ IdleKdeWm
    /\ IdleOrder
    /\ IdleRegion
    /\ IdleLayer
    /\ IdleBackend

\* The bookkeeping of one merge: which Part went into which section.
Merged(section, part) ==
    /\ config_before' = config
    /\ merged_parts' = Append(merged_parts, [section |-> section, part |-> part])
    /\ UNCHANGED notMergeVars

\* config.cursor.merge_with(part)
MergeCursor ==
    /\ Len(merged_parts) < MaxParts
    /\ \E part \in CursorParts :
          /\ config' = [config EXCEPT !.cursor = Cursor_merge_with(@, part)]
          /\ Merged("cursor", part)

\* config.hotkey_overlay.merge_with(part)
MergeHotkeyOverlay ==
    /\ Len(merged_parts) < MaxParts
    /\ \E part \in HotkeyOverlayParts :
          /\ config' = [config EXCEPT !.hotkey_overlay = HotkeyOverlay_merge_with(@, part)]
          /\ Merged("hotkey_overlay", part)

\* config.clipboard.merge_with(part)
MergeClipboard ==
    /\ Len(merged_parts) < MaxParts
    /\ \E part \in ClipboardParts :
          /\ config' = [config EXCEPT !.clipboard = Clipboard_merge_with(@, part)]
          /\ Merged("clipboard", part)

\* config.input.merge_with(part)
MergeInput ==
    /\ Len(merged_parts) < MaxParts
    /\ \E part \in InputParts :
          /\ config' = [config EXCEPT !.input = Input_merge_with(@, part)]
          /\ Merged("input", part)

\* config.layout.merge_with(part)
MergeLayout ==
    /\ Len(merged_parts) < MaxParts
    /\ \E part \in LayoutParts :
          /\ config' = [config EXCEPT !.layout = Layout_merge_with(@, part)]
          /\ Merged("layout", part)

\* config.gestures.merge_with(part)
MergeGestures ==
    /\ Len(merged_parts) < MaxParts
    /\ \E part \in GesturesParts :
          /\ config' = [config EXCEPT !.gestures = Gestures_merge_with(@, part)]
          /\ Merged("gestures", part)

\* config.xwayland_satellite.merge_with(part)
MergeXwaylandSatellite ==
    /\ Len(merged_parts) < MaxParts
    /\ \E part \in XwaylandSatelliteParts :
          /\ config' = [config EXCEPT
                            !.xwayland_satellite = XwaylandSatellite_merge_with(@, part)]
          /\ Merged("xwayland_satellite", part)

NextMerge ==
    \/ MergeCursor
    \/ MergeHotkeyOverlay
    \/ MergeClipboard
    \/ MergeInput
    \/ MergeLayout
    \/ MergeGestures
    \/ MergeXwaylandSatellite

SpecMerge == InitMerge /\ [][NextMerge]_vars

(***************************************************************************)
(* Claims about merging (checked under SpecMerge).  config_before and      *)
(* config are the Full values before and after the last merge_with, and    *)
(* LastMerge names the section and the Part of that merge.                 *)
(***************************************************************************)
LastMerge == merged_parts[Len(merged_parts)]

\* Every field of the set is the Part's value where the Part has one and
\* the value before the merge where it has none.
OverwrittenIfPresent(before, after, part, fields) ==
    \A f \in fields :
        after[f] = IF part[f] = None THEN before[f] ELSE part[f][1]

\* An absent field of the Part leaves the field of the Full as it was.
UnchangedIfAbsent(before, after, part, fields) ==
    \A f \in fields : part[f] = None => after[f] = before[f]

AllAbsent(part) == \A f \in DOMAIN part : part[f] = None

\* C14: a merge changes exactly the fields that are present in the Part: a
\* present scalar field of Cursor, Keyboard or DndEdgeViewScroll takes the
\* Part's value, an absent field keeps its value, the other sections are not
\* touched, and a Part with no field present leaves the Full value unchanged.
C14_MergeChangesExactlyPresentFields ==
    merged_parts # <<>> =>
        LET part == LastMerge.part
            sec  == LastMerge.section
        IN  /\ \A s \in DOMAIN config : s # sec => config[s] = config_before[s]
            /\ sec # "xwayland_satellite" =>
                  /\ AllAbsent(part) => config = config_before
                  /\ UnchangedIfAbsent(config_before[sec], config[sec], part, DOMAIN part)
            /\ sec = "xwayland_satellite" =>
                  /\ (~part.off /\ ~part.on /\ part.path = None) => config = config_before
                  /\ OverwrittenIfPresent(config_before[sec], config[sec], part, {"path"})
            /\ sec = "cursor" =>
                  /\ OverwrittenIfPresent(config_before.cursor, config.cursor, part,
                                          {"xcursor_theme", "xcursor_size"})
                  /\ part.hide_after_inactive_ms # None
                        => config.cursor.hide_after_inactive_ms = part.hide_after_inactive_ms
            /\ sec = "input" /\ part.keyboard # None =>
                  /\ OverwrittenIfPresent(config_before.input.keyboard, config.input.keyboard,
                                          part.keyboard[1],
                                          {"xkb", "repeat_delay", "repeat_rate", "track_layout"})
                  /\ UnchangedIfAbsent(config_before.input.keyboard, config.input.keyboard,
                                       part.keyboard[1], {"numlock"})
            /\ sec = "gestures" /\ part.dnd_edge_view_scroll # None =>
                  OverwrittenIfPresent(config_before.gestures.dnd_edge_view_scroll,
                                       config.gestures.dnd_edge_view_scroll,
                                       part.dnd_edge_view_scroll[1],
                                       {"trigger_width", "delay_ms", "max_speed"})

\* A keyboard Part that sets repeat_rate and not repeat_delay was merged into
\* a Keyboard whose repeat_delay an earlier Part had set.
C14_Witness ==
    /\ Len(merged_parts) = 2
    /\ LastMerge.section = "input"
    /\ LastMerge.part.keyboard # None
    /\ LastMerge.part.keyboard[1].repeat_rate # None
    /\ LastMerge.part.keyboard[1].repeat_delay = None
    /\ config_before.input.keyboard.repeat_delay # Keyboard_default.repeat_delay
    /\ config.input.keyboard.repeat_delay = config_before.input.keyboard.repeat_delay
    /\ config.input.keyboard.repeat_rate # config_before.input.keyboard.repeat_rate

\* The Parts of a section that set a field, by their place in the sequence.
SettersOf(section, f) ==
    {i \in DOMAIN merged_parts :
        merged_parts[i].section = section /\ merged_parts[i].part[f] # None}

LastSetter(section, f) ==
    CHOOSE i \in SettersOf(section, f) : \A j \in SettersOf(section, f) : j <= i

\* The value a Part gives to a field that it sets.
GivenValue(part, f) ==
    IF f = "hide_after_inactive_ms" THEN part[f]
    ELSE IF f = "default_column_width" THEN part[f][1].size
    ELSE part[f][1]

ScalarFieldsOf(section) ==
    IF section = "cursor"
    THEN {"xcursor_theme", "xcursor_size", "hide_after_inactive_ms"}
    ELSE {"gaps", "center_focused_column", "struts", "background_color",
          "default_column_width"}

SectionMergeWith(section, self, part) ==
    IF section = "cursor" THEN Cursor_merge_with(self, part) ELSE Layout_merge_with(self, part)

\* C15: after the Parts have been merged in their order, every scalar field
\* of Cursor and Layout has the value of the last Part that sets it, or its
\* default if no Part sets it; and two Parts that set one field to different
\* values give a different result when they are merged in the other order.
C15_LastPartWins ==
    /\ \A section \in {"cursor", "layout"} : \A f \in ScalarFieldsOf(section) :
          config[section][f] =
             IF SettersOf(section, f) = {} THEN Config_default[section][f]
             ELSE GivenValue(merged_parts[LastSetter(section, f)].part, f)
    /\ \A section \in {"cursor", "layout"} : \A f \in ScalarFieldsOf(section) :
          (/\ Len(merged_parts) = 2
           /\ SettersOf(section, f) = {1, 2}
           /\ GivenValue(merged_parts[1].part, f) # GivenValue(merged_parts[2].part, f))
          => SectionMergeWith(section,
                              SectionMergeWith(section, Config_default[section],
                                               merged_parts[2].part),
                              merged_parts[1].part)[f] # config[section][f]

\* Two cursor Parts set the theme to different values; the second one's stays.
C15_Witness ==
    /\ Len(merged_parts) = 2
    /\ SettersOf("cursor", "xcursor_theme") = {1, 2}
    /\ merged_parts[1].part.xcursor_theme # merged_parts[2].part.xcursor_theme
    /\ config.cursor.xcursor_theme = merged_parts[2].part.xcursor_theme[1]

\* The boolean flag fields of a configuration.
FlagsOf(c) ==
    [hide_when_typing |-> c.cursor.hide_when_typing,
     skip_at_startup |-> c.hotkey_overlay.skip_at_startup,
     hide_not_bound |-> c.hotkey_overlay.hide_not_bound,
     disable_primary |-> c.clipboard.disable_primary,
     disable_power_key_handling |-> c.input.disable_power_key_handling,
     workspace_auto_back_and_forth |-> c.input.workspace_auto_back_and_forth,
     numlock |-> c.input.keyboard.numlock,
     always_center_single_column |-> c.layout.always_center_single_column,
     empty_workspace_above_first |-> c.layout.empty_workspace_above_first]

\* C16: the flag fields are false before any Part is merged, and a flag that
\* is true before a merge is true after it, whatever the Part says.
C16_FlagsMonotone ==
    /\ merged_parts = <<>> => \A f \in DOMAIN FlagsOf(config) : ~FlagsOf(config)[f]
    /\ \A f \in DOMAIN FlagsOf(config) : FlagsOf(config_before)[f] => FlagsOf(config)[f]

\* A Part with an explicit false for skip_at_startup was merged into a
\* HotkeyOverlay whose skip_at_startup an earlier Part had turned on.
C16_Witness ==
    /\ Len(merged_parts) = 2
    /\ LastMerge.section = "hotkey_overlay"
    /\ LastMerge.part.skip_at_startup = Some(Flag(FALSE))
    /\ config_before.hotkey_overlay.skip_at_startup
    /\ config.hotkey_overlay.skip_at_startup

PresetLists == {"preset_column_widths", "preset_window_heights"}

HardcodedPresets == <<Proportion(1, 3), Proportion(1, 2), Proportion(2, 3)>>

\* C17: for preset_column_widths and preset_window_heights, a Part without
\* the list leaves the list of the Full unchanged, a Part with an explicitly
\* empty list sets it to the hardcoded default (1/3, 1/2, 2/3), and the list
\* is never empty.
C17_PresetListsRevertOnEmpty ==
    /\ \A f \in PresetLists : config.layout[f] # <<>>
    /\ (merged_parts # <<>> /\ LastMerge.section = "layout") =>
          \A f \in PresetLists :
             /\ LastMerge.part[f] = None => config.layout[f] = config_before.layout[f]
             /\ LastMerge.part[f] = Some(<<>>) => config.layout[f] = HardcodedPresets
             /\ (LastMerge.part[f] # None /\ LastMerge.part[f] # Some(<<>>))
                   => config.layout[f] = LastMerge.part[f][1]

\* A Part with an empty preset-column-widths list and no preset-window-heights
\* was merged into a Layout in which both lists were not the default ones.
C17_Witness ==
    /\ merged_parts # <<>>
    /\ LastMerge.section = "layout"
    /\ LastMerge.part.preset_column_widths = Some(<<>>)
    /\ config_before.layout.preset_column_widths # HardcodedPresets
    /\ config.layout.preset_column_widths = HardcodedPresets

DeviceSections == {"touchpad", "mouse", "trackpoint", "trackball", "tablet", "touch"}

\* The fields of a sub-section that the Part does not set: the absent fields
\* of a KeyboardPart, and the fields a device node leaves at their default.
FieldsNotSet(section, sub) ==
    IF section = "keyboard"
    THEN {f \in DOMAIN sub : sub[f] = None}
    ELSE {f \in DOMAIN sub : sub[f] = Input_default[section][f]}

\* The last merge was of an `input` Part that has the sub-section.
MergedInputWith(section) ==
    /\ merged_parts # <<>>
    /\ LastMerge.section = "input"
    /\ LastMerge.part[section] # None

\* The fields of the sub-section that the Part does not set are as before.
KeepsOtherFields(section) ==
    \A f \in FieldsNotSet(section, LastMerge.part[section][1]) :
        config.input[section][f] = config_before.input[section][f]

\* C18, as stated: every sub-section of Input merges recursively, so a Part
\* that sets only some fields of a sub-section leaves the other fields at the
\* values of the earlier Parts.
C18_EveryInputSectionMergesRecursively ==
    \A section \in {"keyboard"} \cup DeviceSections :
        MergedInputWith(section) => KeepsOtherFields(section)

\* C18: the keyboard sub-section of Input merges recursively (a Part that
\* sets only some of its fields leaves the others at the values of earlier
\* Parts); touchpad, mouse, trackpoint, trackball, tablet and touch are
\* replaced as a whole by a Part that has them, their unset fields going back
\* to the default, and are left unchanged by a Part that has not.
C18_KeyboardMergesDevicesAreReplaced ==
    /\ MergedInputWith("keyboard") => KeepsOtherFields("keyboard")
    /\ \A section \in DeviceSections :
          /\ MergedInputWith(section)
                => config.input[section] = LastMerge.part[section][1]
          /\ (merged_parts # <<>> /\ LastMerge.section = "input"
                /\ LastMerge.part[section] = None)
                => config.input[section] = config_before.input[section]

\* Two input Parts: the first sets repeat_delay of the keyboard and `off` of
\* the touchpad, the second sets only repeat_rate of the keyboard and only
\* `tap` of the touchpad.  The delay is kept, the `off` is lost.
C18_Witness ==
    /\ Len(merged_parts) = 2
    /\ merged_parts[1].section = "input"
    /\ merged_parts[1].part.touchpad = Some([Input_default.touchpad EXCEPT !.off = TRUE])
    /\ merged_parts[1].part.keyboard # None
    /\ merged_parts[1].part.keyboard[1].repeat_delay # None
    /\ MergedInputWith("keyboard")
    /\ MergedInputWith("touchpad")
    /\ LastMerge.part.keyboard[1].repeat_delay = None
    /\ LastMerge.part.keyboard[1].repeat_rate # None
    /\ LastMerge.part.touchpad[1].tap /\ ~LastMerge.part.touchpad[1].off
    /\ config.input.keyboard.repeat_delay = merged_parts[1].part.keyboard[1].repeat_delay[1]
    /\ config.input.keyboard.repeat_rate = LastMerge.part.keyboard[1].repeat_rate[1]
    /\ config_before.input.touchpad.off
    /\ ~config.input.touchpad.off

(***************************************************************************)
(* window_rule.rs, layer_rule.rs: a rule's match and exclude children are *)
(* decoded into Match entries, and the rule is then tried on windows or    *)
(* layer surfaces.                                                         *)
(***************************************************************************)
MaxMatches == 2     \* `match` children, and `exclude` children, of one rule

\* #[knus(property)] on an Option field: the value of the property, if the
\* node has it.
property(props, name) ==
    IF \E k \in DOMAIN props : props[k].name = name
    THEN Some(props[CHOOSE k \in DOMAIN props : props[k].name = name].val)
    ELSE None

\* A variant of WindowMatch_decode in which a node without at-startup gives
\* at_startup = Some(false).
WindowMatch_decode_at_startup_false(props) ==
    [app_id |-> property(props, "app-id"),
     title |-> property(props, "title"),
     is_active |-> property(props, "is-active"),
     is_focused |-> property(props, "is-focused"),
     is_active_in_column |-> property(props, "is-active-in-column"),
     is_floating |-> property(props, "is-floating"),
     is_window_cast_target |-> property(props, "is-window-cast-target"),
     is_urgent |-> property(props, "is-urgent"),
     at_startup |-> IF property(props, "at-startup") = None THEN Some(FALSE)
                    ELSE property(props, "at-startup")]

\* #[derive(knus::Decode)] for window_rule::Match
WindowMatch_decode(props) ==
    [app_id |-> property(props, "app-id"),
     title |-> property(props, "title"),
     is_active |-> property(props, "is-active"),
     is_focused |-> property(props, "is-focused"),
     is_active_in_column |-> property(props, "is-active-in-column"),
     is_floating |-> property(props, "is-floating"),
     is_window_cast_target |-> property(props, "is-window-cast-target"),
     is_urgent |-> property(props, "is-urgent"),
     at_startup |-> property(props, "at-startup")]

\* #[derive(knus::Decode)] for layer_rule::Match
LayerMatch_decode(props) ==
    [namespace |-> property(props, "namespace"),
     at_startup |-> property(props, "at-startup")]

Match_decode(kind, props) ==
    IF kind = "window" THEN WindowMatch_decode(props) ELSE LayerMatch_decode(props)

\* Regex::is_match of a RegexEq on the strings of the candidates below.
Regex_is_match(re, text) ==
    CASE re = "^foot$"   -> text = "foot"
      [] re = "fox"      -> text \in {"firefox", "Mozilla Firefox"}
      [] re = "^waybar$" -> text = "waybar"
      [] re = "bar"      -> text \in {"waybar", "sidebar"}
      [] OTHER           -> FALSE

\* Whether one Match entry matches a window: every field the entry has is
\* compared, the first that differs ends the comparison.
window_matches(window, m) ==
    IF m.is_focused # None /\ window.is_focused # m.is_focused[1] THEN FALSE
    ELSE IF m.is_active # None /\ window.is_active # m.is_active[1] THEN FALSE
    ELSE IF m.app_id # None /\ ~Regex_is_match(m.app_id[1], window.app_id) THEN FALSE
    ELSE IF m.title # None /\ ~Regex_is_match(m.title[1], window.title) THEN FALSE
    ELSE IF m.is_active_in_column # None
            /\ window.is_active_in_column # m.is_active_in_column[1] THEN FALSE
    ELSE IF m.is_floating # None /\ window.is_floating # m.is_floating[1] THEN FALSE
    ELSE IF m.is_window_cast_target # None
            /\ window.is_window_cast_target # m.is_window_cast_target[1] THEN FALSE
    ELSE IF m.is_urgent # None /\ window.is_urgent # m.is_urgent[1] THEN FALSE
    ELSE IF m.at_startup # None /\ window.is_at_startup # m.at_startup[1] THEN FALSE
    ELSE TRUE

\* Whether one Match entry matches a layer surface.
layer_matches(surface, m) ==
    IF m.namespace # None /\ ~Regex_is_match(m.namespace[1], surface.namespace) THEN FALSE
    ELSE IF m.at_startup # None /\ surface.is_at_startup # m.at_startup[1] THEN FALSE
    ELSE TRUE

entry_matches(kind, candidate, m) ==
    IF kind = "window" THEN window_matches(candidate, m) ELSE layer_matches(candidate, m)

\* any(): some entry of the list matches the candidate.
RECURSIVE any_matches(_, _, _)
any_matches(kind, candidate, entries) ==
    IF entries = <<>> THEN FALSE
    ELSE IF entry_matches(kind, candidate, Head(entries)) THEN TRUE
    ELSE any_matches(kind, candidate, Tail(entries))

\* Whether the rule is applied to the candidate: the rule is skipped when it
\* has matches and none of them matches, and when one of its excludes matches.
rule_applies(r, candidate) ==
    IF ~(r.matches = <<>> \/ any_matches(r.kind, candidate, r.matches)) THEN FALSE
    ELSE IF any_matches(r.kind, candidate, r.excludes) THEN FALSE
    ELSE TRUE

\* The properties of the `match` and `exclude` nodes of window rules.
WindowMatchNodes ==
    { <<>>,
      <<Prop("app-id", "^foot$")>>,
      <<Prop("title", "fox"), Prop("is-floating", TRUE)>>,
      <<Prop("at-startup", TRUE), Prop("is-urgent", FALSE)>> }

\* The properties of the `match` and `exclude` nodes of layer rules.
LayerMatchNodes ==
    { <<>>,
      <<Prop("namespace", "^waybar$")>>,
      <<Prop("namespace", "bar"), Prop("at-startup", FALSE)>> }

MatchNodes(kind) == IF kind = "window" THEN WindowMatchNodes ELSE LayerMatchNodes

Window(app_id, title, is_active, is_floating, is_urgent, is_at_startup) ==
    [app_id |-> app_id, title |-> title, is_active |-> is_active,
     is_focused |-> is_active, is_active_in_column |-> TRUE,
     is_floating |-> is_floating, is_window_cast_target |-> FALSE,
     is_urgent |-> is_urgent, is_at_startup |-> is_at_startup]

Windows ==
    { Window("foot", "sh", TRUE, FALSE, FALSE, TRUE),
      Window("firefox", "Mozilla Firefox", FALSE, TRUE, FALSE, FALSE),
      Window("mpv", "video", FALSE, FALSE, TRUE, TRUE) }

LayerSurfaces ==
    { [namespace |-> "waybar", is_at_startup |-> TRUE],
      [namespace |-> "sidebar", is_at_startup |-> FALSE],
      [namespace |-> "launcher", is_at_startup |-> TRUE] }

Candidates(kind) == IF kind = "window" THEN Windows ELSE LayerSurfaces

\* #[derive(Default)] for WindowRule and LayerRule: no matches, no excludes.
InitRules ==
    /\ parsed = <<>>
    /\ children = <<>>
    /\ decoded = <<>>
    /\ seen_keys = {}
    /\ binds = <<>>
    /\ errors = <<>>
    /\ translated = {}
    /\ IdleMerge
    /\ IdleModKey
    /\ rule \in {[kind |-> k, matches |-> <<>>, excludes |-> <<>>] : k \in {"window", "layer"}}
    /\ resolved = {}
    /\ IdleScroll
    /\ IdleKdeWm
    /\ IdleOrder
    /\ IdleRegion
    /\ IdleLayer
    /\ IdleBackend

\* #[knus(children(name = "match"))]: one more `match` child of the rule.
DecodeMatch ==
    /\ resolved = {}
    /\ Len(rule.matches) < MaxMatches
    /\ \E props \in MatchNodes(rule.kind) :
          rule' = [rule EXCEPT !.matches = Append(@, Match_decode(rule.kind, props))]
    /\ UNCHANGED <<resolved, notRuleVars>>

\* #[knus(children(name = "exclude"))]: one more `exclude` child of the rule.
DecodeExclude ==
    /\ resolved = {}
    /\ Len(rule.excludes) < MaxMatches
    /\ \E props \in MatchNodes(rule.kind) :
          rule' = [rule EXCEPT !.excludes = Append(@, Match_decode(rule.kind, props))]
    /\ UNCHANGED <<resolved, notRuleVars>>

\* The rule is tried on one more window or layer surface.
ComputeRules ==
    /\ \E candidate \in Candidates(rule.kind) :
          /\ \A r \in resolved : r.candidate # candidate
          /\ resolved' = resolved \cup
                {[candidate |-> candidate, applies |-> rule_applies(rule, candidate)]}
    /\ UNCHANGED <<rule, notRuleVars>>

NextRules ==
    \/ DecodeMatch
    \/ DecodeExclude
    \/ ComputeRules

SpecRules == InitRules /\ [][NextRules]_vars

(***************************************************************************)
(* Claims about rule matching (checked under SpecRules).                   *)
(***************************************************************************)
\* Whether the candidate has what one field of a Match entry asks for.
FieldMatches(f, v, candidate) ==
    IF f \in {"app_id", "title", "namespace"} THEN Regex_is_match(v, candidate[f])
    ELSE IF f = "at_startup" THEN candidate.is_at_startup = v
    ELSE candidate[f] = v

EveryPresentFieldMatches(m, candidate) ==
    \A f \in DOMAIN m : m[f] # None => FieldMatches(f, m[f][1], candidate)

\* The entry a `match` or `exclude` node without properties decodes to.
NoFieldSet == Match_decode(rule.kind, <<>>)

\* C19: a rule applies to a candidate iff (its matches list is empty or some
\* matches entry has every present field matching the candidate) and no
\* excludes entry has every present field matching it; an entry decoded from
\* a node with no field set matches every candidate, so as an excludes entry
\* it excludes every candidate.
C19_RuleAppliesIff ==
    \A r \in resolved :
        /\ r.applies <=>
              /\ \/ rule.matches = <<>>
                 \/ \E i \in DOMAIN rule.matches :
                       EveryPresentFieldMatches(rule.matches[i], r.candidate)
              /\ ~\E j \in DOMAIN rule.excludes :
                       EveryPresentFieldMatches(rule.excludes[j], r.candidate)
        /\ EveryPresentFieldMatches(NoFieldSet, r.candidate)
        /\ (\E i \in DOMAIN rule.matches : rule.matches[i] = NoFieldSet)
              => (r.applies <=> ~\E j \in DOMAIN rule.excludes :
                                    EveryPresentFieldMatches(rule.excludes[j], r.candidate))
        /\ (\E j \in DOMAIN rule.excludes : rule.excludes[j] = NoFieldSet) => ~r.applies

\* A window rule with `match app-id="^foot$"` and a `match` without fields
\* and an exclude on floating Firefox windows: it applies to foot and to mpv
\* and not to the floating Firefox window.
C19_Witness ==
    /\ rule.kind = "window"
    /\ Len(rule.matches) = 2
    /\ rule.matches[2] = NoFieldSet
    /\ rule.matches[1].app_id = Some("^foot$")
    /\ Len(rule.excludes) = 1
    /\ rule.excludes[1].is_floating = Some(TRUE)
    /\ Cardinality(resolved) = 3
    /\ \A r \in resolved : r.applies <=> r.candidate.app_id # "firefox"

(***************************************************************************)
(* input.rs: ModKey, the value of the mod-key and mod-key-nested settings. *)
(***************************************************************************)
MaxModParsed == 2   \* mod-key strings parsed in one behaviour

\* str::to_ascii_lowercase
str_to_ascii_lowercase(s) == [i \in 1..Len(s) |-> to_ascii_lowercase(s[i])]

ModKeyOk(key) == [ok |-> TRUE, key |-> key]
ModKeyErr     == [ok |-> FALSE, key |-> ""]

\* A variant of ModKey_from_str that "repairs" the mod3/mod5 aliases.
ModKey_from_str_uncrossed(s) ==
    LET l == str_to_ascii_lowercase(s)
    IN
        IF l = <<"c", "t", "r", "l">>
              \/ l = <<"c", "o", "n", "t", "r", "o", "l">>
        THEN ModKeyOk("Ctrl")
        ELSE IF l = <<"s", "h", "i", "f", "t">>
        THEN ModKeyOk("Shift")
        ELSE IF l = <<"a", "l", "t">>
        THEN ModKeyOk("Alt")
        ELSE IF l = <<"s", "u", "p", "e", "r">> \/ l = <<"w", "i", "n">>
        THEN ModKeyOk("Super")
        ELSE IF l = <<"i", "s", "o", "_", "l", "e", "v", "e", "l", "3", "_", "s", "h", "i", "f", "t">>
              \/ l = <<"m", "o", "d", "3">>
        THEN ModKeyOk("IsoLevel3Shift")
        ELSE IF l = <<"i", "s", "o", "_", "l", "e", "v", "e", "l", "5", "_", "s", "h", "i", "f", "t">>
              \/ l = <<"m", "o", "d", "5">>
        THEN ModKeyOk("IsoLevel5Shift")
        ELSE ModKeyErr

\* impl FromStr for ModKey
ModKey_from_str(s) ==
    LET l == str_to_ascii_lowercase(s)
    IN
        IF l = <<"c", "t", "r", "l">>
              \/ l = <<"c", "o", "n", "t", "r", "o", "l">>
        THEN ModKeyOk("Ctrl")
        ELSE IF l = <<"s", "h", "i", "f", "t">>
        THEN ModKeyOk("Shift")
        ELSE IF l = <<"a", "l", "t">>
        THEN ModKeyOk("Alt")
        ELSE IF l = <<"s", "u", "p", "e", "r">> \/ l = <<"w", "i", "n">>
        THEN ModKeyOk("Super")
        ELSE IF l = <<"i", "s", "o", "_", "l", "e", "v", "e", "l", "3", "_", "s", "h", "i", "f", "t">>
              \/ l = <<"m", "o", "d", "5">>
        THEN ModKeyOk("IsoLevel3Shift")
        ELSE IF l = <<"i", "s", "o", "_", "l", "e", "v", "e", "l", "5", "_", "s", "h", "i", "f", "t">>
              \/ l = <<"m", "o", "d", "3">>
        THEN ModKeyOk("IsoLevel5Shift")
        ELSE ModKeyErr

\* ModKey::to_modifiers
ModKey_to_modifiers(key) ==
    CASE key = "Ctrl"           -> CTRL
      [] key = "Shift"          -> SHIFT
      [] key = "Alt"            -> ALT
      [] key = "Super"          -> SUPER
      [] key = "IsoLevel3Shift" -> ISO_LEVEL3_SHIFT
      [] key = "IsoLevel5Shift" -> ISO_LEVEL5_SHIFT

\* The strings given to ModKey::from_str.
ModKeyInputs ==
    { <<"c", "t", "r", "l">>,
      <<"C", "o", "n", "t", "r", "o", "l">>,
      <<"C", "T", "R", "L">>,
      <<"S", "h", "i", "f", "t">>,
      <<"a", "l", "t">>,
      <<"A", "L", "T">>,
      <<"s", "u", "p", "e", "r">>,
      <<"W", "i", "n">>,
      <<"i", "s", "o", "_", "l", "e", "v", "e", "l", "3", "_", "s", "h", "i", "f", "t">>,
      <<"I", "S", "O", "_", "L", "e", "v", "e", "l", "5", "_", "S", "h", "i", "f", "t">>,
      <<"m", "o", "d", "5">>,
      <<"M", "o", "d", "5">>,
      <<"m", "o", "d", "3">>,
      <<"M", "O", "D", "3">>,
      <<"m", "o", "d">>,
      <<"M", "o", "d">>,
      <<>>,
      <<"m", "e", "t", "a">>,
      <<" ", "c", "t", "r", "l">>,
      <<"m", "o", "d", "4">>,
      <<"c", "t", "r", "l", "+", "s", "h", "i", "f", "t">> }

InitModKey ==
    /\ parsed = <<>>
    /\ children = <<>>
    /\ decoded = <<>>
    /\ seen_keys = {}
    /\ binds = <<>>
    /\ errors = <<>>
    /\ translated = {}
    /\ IdleMerge
    /\ IdleRules
    /\ mod_parsed = {}
    /\ IdleScroll
    /\ IdleKdeWm
    /\ IdleOrder
    /\ IdleRegion
    /\ IdleLayer
    /\ IdleBackend

\* `s.parse::<ModKey>()` on one more string.
ParseModKey ==
    /\ Cardinality(mod_parsed) < MaxModParsed
    /\ \E s \in ModKeyInputs :
          mod_parsed' = mod_parsed \cup {[s |-> s, result |-> ModKey_from_str(s)]}
    /\ UNCHANGED notModKeyVars

NextModKey == ParseModKey

SpecModKey == InitModKey /\ [][NextModKey]_vars

(***************************************************************************)
(* Claims about ModKey (checked under SpecModKey).                         *)
(***************************************************************************)
ModKeyNames ==
    { <<"c", "t", "r", "l">>,
      <<"c", "o", "n", "t", "r", "o", "l">>,
      <<"s", "h", "i", "f", "t">>,
      <<"a", "l", "t">>,
      <<"s", "u", "p", "e", "r">>,
      <<"w", "i", "n">>,
      <<"i", "s", "o", "_", "l", "e", "v", "e", "l", "3", "_", "s", "h", "i", "f", "t">>,
      <<"m", "o", "d", "5">>,
      <<"i", "s", "o", "_", "l", "e", "v", "e", "l", "5", "_", "s", "h", "i", "f", "t">>,
      <<"m", "o", "d", "3">> }

\* C20: ModKey::from_str accepts, in any letter case, exactly ctrl, control,
\* shift, alt, super, win, iso_level3_shift, mod5, iso_level5_shift and mod3;
\* to_modifiers of the result is the single flag that Key::from_str gives the
\* same name as a modifier token (mod5 is ISO_LEVEL3_SHIFT, mod3 is
\* ISO_LEVEL5_SHIFT); "mod" is rejected and COMPOSITOR is never the result.
C20_ModKeyNames ==
    \A p \in mod_parsed :
        /\ p.result.ok <=> lower_str(p.s) \in ModKeyNames
        /\ p.result.ok =>
              /\ ModKey_to_modifiers(p.result.key) = modifier_flag(p.s)
              /\ ModKey_to_modifiers(p.result.key) \in ModifierFlags \ {COMPOSITOR}
        /\ lower_str(p.s) = <<"m", "o", "d", "5">>
              => p.result.ok /\ ModKey_to_modifiers(p.result.key) = ISO_LEVEL3_SHIFT
        /\ lower_str(p.s) = <<"m", "o", "d", "3">>
              => p.result.ok /\ ModKey_to_modifiers(p.result.key) = ISO_LEVEL5_SHIFT
        /\ lower_str(p.s) = <<"m", "o", "d">> => ~p.result.ok

\* "Mod5" was parsed to the level-3 key and "Mod" was rejected.
C20_Witness ==
    /\ \E p \in mod_parsed :
          /\ p.s = <<"M", "o", "d", "5">>
          /\ p.result = ModKeyOk("IsoLevel3Shift")
    /\ \E p \in mod_parsed :
          /\ p.s = <<"M", "o", "d">>
          /\ ~p.result.ok

(***************************************************************************)
(* input.rs: ScrollFactor.  A factor is a whole number here; 1 stands for  *)
(* the 1.0 of the code.                                                    *)
(***************************************************************************)
MaxScrolled == 2    \* ScrollFactor values h_v_factors is called on in one behaviour

\* Option::map(|f| f.0).unwrap_or(default)
unwrap_or(opt, default) == IF opt = None THEN default ELSE opt[1]

\* A variant of h_v_factors in which the vertical factor falls back to the
\* horizontal one.
h_v_factors_v_follows_h(sf) ==
    LET base_value == unwrap_or(sf.base, 1)
        h == unwrap_or(sf.horizontal, base_value)
        v == unwrap_or(sf.vertical, h)
    IN  <<h, v>>

\* ScrollFactor::h_v_factors
h_v_factors(sf) ==
    LET base_value == unwrap_or(sf.base, 1)
        h == unwrap_or(sf.horizontal, base_value)
        v == unwrap_or(sf.vertical, base_value)
    IN  <<h, v>>

\* The ScrollFactor values: base in 0..100, the axes in -100..100.
ScrollFactors ==
    [base : {None, Some(0), Some(2)},
     horizontal : {None, Some(-1), Some(1), Some(3)},
     vertical : {None, Some(-1), Some(1), Some(3)}]

InitScroll ==
    /\ IdleParsers
    /\ IdleMerge
    /\ IdleRules
    /\ IdleModKey
    /\ scrolled = {}
    /\ IdleKdeWm
    /\ IdleOrder
    /\ IdleRegion
    /\ IdleLayer
    /\ IdleBackend

\* `sf.h_v_factors()` on one more ScrollFactor.
CallHVFactors ==
    /\ Cardinality(scrolled) < MaxScrolled
    /\ \E sf \in ScrollFactors :
          scrolled' = scrolled \cup {[sf |-> sf, factors |-> h_v_factors(sf)]}
    /\ UNCHANGED notScrollVars

NextScroll == CallHVFactors

SpecScroll == InitScroll /\ [][NextScroll]_vars

(***************************************************************************)
(* Claims about ScrollFactor (checked under SpecScroll).                   *)
(***************************************************************************)
\* The factor of one axis: the axis' own, else the base, else 1.
AxisFactor(sf, axis) ==
    IF sf[axis] # None THEN sf[axis][1]
    ELSE IF sf.base # None THEN sf.base[1]
    ELSE 1

\* C21: h_v_factors returns for each axis the axis-specific factor when set,
\* otherwise the base factor when set, otherwise 1; two values that differ
\* only in one axis get the same factor for the other axis.
C21_AxisFactorsIndependent ==
    /\ \A p \in scrolled :
          p.factors = <<AxisFactor(p.sf, "horizontal"), AxisFactor(p.sf, "vertical")>>
    /\ \A p, q \in scrolled :
          /\ (p.sf.base = q.sf.base /\ p.sf.vertical = q.sf.vertical)
                => p.factors[2] = q.factors[2]
          /\ (p.sf.base = q.sf.base /\ p.sf.horizontal = q.sf.horizontal)
                => p.factors[1] = q.factors[1]

\* h_v_factors was called on a value with a base and a horizontal factor and
\* on the same value without the horizontal factor: the vertical is the base.
C21_Witness ==
    \E p, q \in scrolled :
        /\ p.sf = [base |-> Some(2), horizontal |-> Some(3), vertical |-> None]
        /\ q.sf = [base |-> Some(2), horizontal |-> None, vertical |-> None]
        /\ p.factors = <<3, 2>>
        /\ q.factors = <<2, 2>>

(***************************************************************************)
(* A further claim about Binds::decode_node (checked under Spec).          *)
(***************************************************************************)
\* The ways to pick, in document order, one node for every Bind of the list.
NodeChoices ==
    {f \in [DOMAIN binds -> DOMAIN children] :
        /\ \A a, b \in DOMAIN binds : a < b => f[a] < f[b]
        /\ \A k \in DOMAIN binds : decoded[f[k]].bind = <<binds[k]>>}

\* C22: the decoded list is a subsequence of the document's bind nodes, the
\* kept Binds standing in the order of their nodes; and of two nodes with one
\* Key and different Binds the list holds the Bind of the earlier node, so
\* the same two nodes in the other order leave the other Bind in the list.
C22_BindsInDocumentOrder ==
    /\ NodeChoices # {}
    /\ \A i, j \in ValidIdx :
          (/\ i < j
           /\ FirstOfKey(i)
           /\ KeyOf(i).key = KeyOf(j).key
           /\ decoded[i].bind # decoded[j].bind)
          => /\ \E b \in DOMAIN binds : <<binds[b]>> = decoded[i].bind
             /\ \A b \in DOMAIN binds : <<binds[b]>> # decoded[j].bind

\* Three nodes: the first and the third have one Key and different Binds, the
\* second has another Key.  The list holds the Binds of the first two, in
\* that order.
C22_Witness ==
    /\ Len(children) = 3
    /\ ValidIdx = {1, 2, 3}
    /\ KeyOf(1).key = KeyOf(3).key
    /\ KeyOf(1).key # KeyOf(2).key
    /\ decoded[1].bind # decoded[3].bind
    /\ binds = decoded[1].bind \o decoded[2].bind
(***************************************************************************)
(* Claims about XwaylandSatellite, the preset lists over a whole sequence  *)
(* of Parts, and merging a Part twice (checked under SpecMerge).           *)
(***************************************************************************)
XwaylandSection == "xwayland_satellite"

\* The positions in merged_parts of the XwaylandSatelliteParts that carry
\* `on` or `off`.
OnOffCarriers ==
    { i \in 1..Len(merged_parts) :
        /\ merged_parts[i].section = XwaylandSection
        /\ (merged_parts[i].part.on \/ merged_parts[i].part.off) }

LastCarrier == CHOOSE i \in OnOffCarriers : \A j \in OnOffCarriers : j <= i

\* C25: merging an XwaylandSatellitePart sets off to (previous off OR
\* part.off) AND NOT part.on, so a Part carrying `on` leaves off false also
\* when it carries `off` as well; after a sequence of Parts off is decided
\* by the last Part that carries `on` or `off` (false if that Part carries
\* `on`, true otherwise), and is the default false if there is none.
C25_XwaylandOffOrOffAndNotOn ==
    /\ (merged_parts # <<>> /\ LastMerge.section = XwaylandSection) =>
          /\ config.xwayland_satellite.off =
                ((config_before.xwayland_satellite.off \/ LastMerge.part.off)
                    /\ ~LastMerge.part.on)
          /\ LastMerge.part.on => ~config.xwayland_satellite.off
    /\ config.xwayland_satellite.off =
          IF OnOffCarriers = {}
          THEN XwaylandSatellite_default.off
          ELSE ~merged_parts[LastCarrier].part.on

\* A Part carrying both `on` and `off` was merged into an XwaylandSatellite
\* that an earlier Part had switched off.
C25_Witness ==
    /\ Len(merged_parts) = 2
    /\ merged_parts[1].section = XwaylandSection
    /\ LastMerge.section = XwaylandSection
    /\ LastMerge.part.on
    /\ LastMerge.part.off
    /\ config_before.xwayland_satellite.off
    /\ ~config.xwayland_satellite.off

RECURSIVE PlainOverride(_, _)
\* The list field f after the first n merges when every `layout` Part
\* overrides it and no merge reverts an empty list.
PlainOverride(f, n) ==
    IF n = 0
    THEN Layout_default[f]
    ELSE IF merged_parts[n].section = "layout"
         THEN merge_clone(PlainOverride(f, n - 1), merged_parts[n].part[f])
         ELSE PlainOverride(f, n - 1)

\* C23: for every sequence of LayoutParts, the preset lists that
\* Layout::merge_with leaves (it reverts an empty list inside every merge)
\* are the lists that plain overriding leaves when an empty list is
\* reverted to the default once, after the last merge.
C23_RevertPerMergeEqualsRevertAtEnd ==
    \A f \in PresetLists :
        config.layout[f] =
            IF PlainOverride(f, Len(merged_parts)) = <<>>
            THEN HardcodedPresets
            ELSE PlainOverride(f, Len(merged_parts))

\* Two layout Parts were merged, the first with an explicitly empty
\* preset-column-widths list and the second without the list: the merge
\* reverted the list in the first merge, plain overriding keeps it empty
\* until the end.
C23_Witness ==
    /\ Len(merged_parts) = 2
    /\ merged_parts[1].section = "layout"
    /\ merged_parts[2].section = "layout"
    /\ merged_parts[1].part.preset_column_widths = Some(<<>>)
    /\ merged_parts[2].part.preset_column_widths = None
    /\ merged_parts[2].part # LayoutPart_default
    /\ PlainOverride("preset_column_widths", 2) = <<>>
    /\ config.layout.preset_column_widths = HardcodedPresets

\* The KeyboardParts that the `input` Parts carry.
KeyboardParts == { p.keyboard[1] : p \in { q \in InputParts : q.keyboard # None } }

KdeClients == {"c1", "c2"}

KdeWindowIds == {"w1", "w2"}

MaxBindRequests == 3

BindingResource(id, client) == [id |-> id, client |-> client]

\* client.create_resource::<OrgKdePlasmaWindow, _, D>(handle, 18,
\*     OrgKdePlasmaWindowState { window })
PlasmaWindow(client, window) == [client |-> client, window |-> window]

\* Resource::is_alive of a binding resource.
is_alive(resource, live) == resource \in live

\* Resource::client of a binding resource: the client, while the resource is
\* alive.
client_of(resource, live) == IF resource \in live THEN Some(resource.client) ELSE None

\* OrgKdePlasmaWindowManagementState::find_plasma_window: the position of
\* the first resource created for the window, 0 if there is none.
find_plasma_window(list, window) ==
    IF \E i \in 1..Len(list) : list[i].window = window
    THEN CHOOSE i \in 1..Len(list) :
            /\ list[i].window = window
            /\ \A j \in 1..(i - 1) : list[j].window # window
    ELSE 0

\* OrgKdePlasmaWindowManagementState::send_initial_state: the list after
\* the call.  Nothing is created without a binding whose client exists.
send_initial_state(list, stored, live, window) ==
    IF stored = None
    THEN list
    ELSE IF client_of(stored[1], live) = None
         THEN list
         ELSE Append(list, PlasmaWindow(client_of(stored[1], live)[1], window))

RECURSIVE send_all(_, _, _, _)
\* `for window in windows { self.send_initial_state(window, handle)?; }`
send_all(list, stored, live, todo) ==
    IF todo = <<>>
    THEN list
    ELSE send_all(send_initial_state(list, stored, live, Head(todo)),
                  stored, live, Tail(todo))

\* OrgKdePlasmaWindowManagementState::initialize: `self.windows.clear()`,
\* then one send_initial_state per window.
initialize(stored, live, todo) == send_all(<<>>, stored, live, todo)

\* A variant of the test in bind that turns away no client.
bound_by_another_never(stored, live) == FALSE

\* The test in bind: `binding.as_ref()` is Some, `binding.is_alive()` and
\* `binding.client().is_some()`.
bound_by_another(stored, live) ==
    /\ stored # None
    /\ is_alive(stored[1], live)
    /\ client_of(stored[1], live) # None

ERROR_ALREADY_BOUND == 429

InitKdeWm ==
    /\ IdleParsers
    /\ IdleMerge
    /\ IdleRules
    /\ IdleModKey
    /\ IdleScroll
    /\ binding = None
    /\ windows = <<>>
    /\ connected = KdeClients
    /\ live_bindings = {}
    /\ mapped_windows = <<>>
    /\ posted_errors = <<>>
    /\ next_binding = 0
    /\ IdleOrder
    /\ IdleRegion
    /\ IdleLayer
    /\ IdleBackend

\* GlobalDispatch::bind for a bind request of a connected client.
KdeBind ==
    /\ next_binding < MaxBindRequests
    /\ \E client \in connected :
          LET resource == BindingResource(next_binding + 1, client) IN
          /\ next_binding' = next_binding + 1
          /\ IF bound_by_another(binding, live_bindings)
             THEN /\ posted_errors' =
                        Append(posted_errors,
                               [resource |-> resource, code |-> ERROR_ALREADY_BOUND])
                  /\ connected' = connected \ {client}
                  /\ live_bindings' = {b \in live_bindings : b.client # client}
                  /\ UNCHANGED <<binding, windows>>
             ELSE /\ binding' = Some(resource)
                  /\ live_bindings' = live_bindings \cup {resource}
                  /\ windows' = initialize(Some(resource), live_bindings \cup {resource},
                                           mapped_windows)
                  /\ UNCHANGED <<connected, posted_errors>>
    /\ UNCHANGED <<mapped_windows>>
    /\ UNCHANGED notKdeWmVars

\* OrgKdePlasmaWindowManagementState::unmap_window
KdeUnmapWindow ==
    /\ \E window \in KdeWindowIds :
          IF find_plasma_window(windows, window) = 0
          THEN windows' = windows
          ELSE windows' = SelectSeq(windows, LAMBDA w : w.window # window)
    /\ UNCHANGED <<binding, connected, live_bindings, mapped_windows, posted_errors,
                   next_binding>>
    /\ UNCHANGED notKdeWmVars

\* The compositor maps a window: get_windows() returns it from now on.
KdeWindowMapped ==
    /\ \E window \in KdeWindowIds :
          /\ \A i \in 1..Len(mapped_windows) : mapped_windows[i] # window
          /\ mapped_windows' = Append(mapped_windows, window)
    /\ UNCHANGED <<binding, windows, connected, live_bindings, posted_errors,
                   next_binding>>
    /\ UNCHANGED notKdeWmVars

\* The compositor drops a window: get_windows() no longer returns it.
KdeWindowGone ==
    /\ \E window \in KdeWindowIds :
          /\ \E i \in 1..Len(mapped_windows) : mapped_windows[i] = window
          /\ mapped_windows' = SelectSeq(mapped_windows, LAMBDA w : w # window)
    /\ UNCHANGED <<binding, windows, connected, live_bindings, posted_errors,
                   next_binding>>
    /\ UNCHANGED notKdeWmVars

\* A client destroys a binding resource of its own.
KdeDestroyBinding ==
    /\ \E resource \in live_bindings :
          live_bindings' = live_bindings \ {resource}
    /\ UNCHANGED <<binding, windows, connected, mapped_windows, posted_errors,
                   next_binding>>
    /\ UNCHANGED notKdeWmVars

\* A client goes away; its resources die with it.
KdeDisconnect ==
    /\ \E client \in connected :
          /\ connected' = connected \ {client}
          /\ live_bindings' = {b \in live_bindings : b.client # client}
    /\ UNCHANGED <<binding, windows, mapped_windows, posted_errors, next_binding>>
    /\ UNCHANGED notKdeWmVars

\* A client connects.
KdeConnect ==
    /\ \E client \in KdeClients \ connected :
          connected' = connected \cup {client}
    /\ UNCHANGED <<binding, windows, live_bindings, mapped_windows, posted_errors,
                   next_binding>>
    /\ UNCHANGED notKdeWmVars

NextKdeWm ==
    \/ KdeBind
    \/ KdeUnmapWindow
    \/ KdeWindowMapped
    \/ KdeWindowGone
    \/ KdeDestroyBinding
    \/ KdeDisconnect
    \/ KdeConnect

SpecKdeWm == InitKdeWm /\ [][NextKdeWm]_vars

\* A bind request is being handled.
BindStep == next_binding' = next_binding + 1

\* The list of window resources bind builds for a client: one per window
\* that get_windows() returns, in that order.
OnePerWindow(client) ==
    [i \in 1..Len(mapped_windows) |-> PlasmaWindow(client, mapped_windows[i])]

\* C26: at most one OrgKdePlasmaWindowManagement binding is alive at any
\* time, and it is the stored one.  A bind request that finds the stored
\* binding alive with its client is answered with protocol error 429 on the
\* new resource and leaves the stored binding and the list of window
\* resources as they were; any other bind request stores the new binding
\* and replaces the list by one new resource per current window.
C26_OneBindingAtATime ==
    /\ [](Cardinality(live_bindings) <= 1)
    /\ [](\A b \in live_bindings : binding = Some(b))
    /\ [][BindStep =>
            IF binding # None /\ binding[1] \in live_bindings
            THEN /\ Len(posted_errors') = Len(posted_errors) + 1
                 /\ posted_errors'[Len(posted_errors')].code = 429
                 /\ posted_errors'[Len(posted_errors')].resource.id = next_binding'
                 /\ SubSeq(posted_errors', 1, Len(posted_errors)) = posted_errors
                 /\ binding' = binding
                 /\ windows' = windows
                 /\ \A b \in live_bindings' : b.id # next_binding'
            ELSE /\ posted_errors' = posted_errors
                 /\ binding' # None
                 /\ binding'[1].id = next_binding'
                 /\ live_bindings' = {binding'[1]}
                 /\ windows' = OnePerWindow(binding'[1].client)]_vars

\* A first client bound the global, a second bind request was turned away
\* with error 429, and after the first binding had died a third request
\* replaced it and got a resource for each of the two windows.
C26_Witness ==
    /\ next_binding = 3
    /\ Len(posted_errors) = 1
    /\ posted_errors[1].resource.id = 2
    /\ posted_errors[1].code = 429
    /\ binding # None
    /\ binding[1].id = 3
    /\ binding[1] \in live_bindings
    /\ Len(mapped_windows) = 2
    /\ windows = OnePerWindow(binding[1].client)

(***************************************************************************)
(* The kde_output_order_v1 global.  The repository holds two modules that  *)
(* serve it: src/protocols/kde_output_order.rs keeps a Vec of the bound    *)
(* resources, src/protocols/kde_outputorder.rs keeps a HashMap from the    *)
(* ClientId to one resource.  A resource is a record of its number and the *)
(* client that created it.                                                 *)
(***************************************************************************)
KDE_OUTPUT_ORDER == "kde_output_order.rs"

KDE_OUTPUTORDER == "kde_outputorder.rs"

OrderClients == {"c1", "c2"}

\* The output names there are, in the order `order.sort()` gives them.
OutputNames == <<"DP-1", "eDP-1">>

MaxOrderBinds == 3

OrderResource(id, client) == [id |-> id, client |-> client]

OutputEvent(name) == <<"output", name>>

DoneEvent == <<"done">>

\* kde_output_order.rs, send_events: one `output` per entry of
\* output_order, then `done`.
send_events(order) ==
    [i \in 1..(Len(order) + 1) |->
        IF i <= Len(order) THEN OutputEvent(order[i]) ELSE DoneEvent]

\* kde_output_order.rs, broadcast_output_change: send_events to every entry
\* of bindings.
broadcast_output_change(list, order) ==
    { [resource |-> list[i], events |-> send_events(order)] : i \in 1..Len(list) }

\* kde_output_order.rs, add_binding: pushed unless a resource with this id
\* is in the list.
add_binding(list, resource) ==
    IF \E i \in 1..Len(list) : list[i] = resource
    THEN list
    ELSE Append(list, resource)

\* kde_output_order.rs, remove_binding
remove_binding(list, resource) == SelectSeq(list, LAMBDA e : e # resource)

\* kde_outputorder.rs, notify_instance: the events one instance is sent;
\* none while the output order is empty.
notify_instance(order) ==
    IF order = <<>>
    THEN <<>>
    ELSE [i \in 1..(Len(order) + 1) |->
            IF i <= Len(order) THEN OutputEvent(order[i]) ELSE DoneEvent]

\* What a handler has sent: the resources with a non-empty batch of events.
Sent(resource, events) ==
    IF events = <<>> THEN {} ELSE {[resource |-> resource, events |-> events]}

\* kde_outputorder.rs, notify_all
notify_all(map, order) ==
    UNION { Sent(e.inst, notify_instance(order)) : e \in map }

\* `self.instances.insert(client_id, inst)`: the entry of the client is
\* replaced.
instances_insert(map, client_id, inst) ==
    {e \in map : e.client # client_id} \cup {[client |-> client_id, inst |-> inst]}

\* `self.instances.remove(&client_id)`
instances_remove(map, client_id) == {e \in map : e.client # client_id}

\* `order.sort()` of the names of the outputs in new_state.
sorted_names(names) ==
    SelectSeq(OutputNames, LAMBDA n : n \in names)

\* The orders of distinct outputs that update_output_order can be given.
OutputOrders ==
    { <<>>, <<"DP-1">>, <<"eDP-1">>, <<"DP-1", "eDP-1">>, <<"eDP-1", "DP-1">> }

InitOrder ==
    /\ IdleParsers
    /\ IdleMerge
    /\ IdleRules
    /\ IdleModKey
    /\ IdleScroll
    /\ IdleKdeWm
    /\ registered \in {KDE_OUTPUT_ORDER, KDE_OUTPUTORDER}
    /\ bindings = <<>>
    /\ instances = {}
    /\ output_order = <<>>
    /\ sent = {}
    /\ order_resources = {}
    /\ order_next = 0
    /\ order_last = "new"
    /\ IdleRegion
    /\ IdleLayer
    /\ IdleBackend

\* kde_output_order.rs, GlobalDispatch::bind
OutputOrderBind ==
    /\ registered = KDE_OUTPUT_ORDER
    /\ order_next < MaxOrderBinds
    /\ \E client \in OrderClients :
          LET r == OrderResource(order_next + 1, client) IN
          /\ sent' = {[resource |-> r, events |-> send_events(output_order)]}
          /\ bindings' = add_binding(bindings, r)
          /\ order_resources' = order_resources \cup {r}
    /\ order_next' = order_next + 1
    /\ order_last' = "bind"
    /\ UNCHANGED <<registered, instances, output_order>>
    /\ UNCHANGED notOrderVars

\* kde_output_order.rs, Dispatch::request with Request::Destroy
OutputOrderDestroy ==
    /\ registered = KDE_OUTPUT_ORDER
    /\ \E resource \in order_resources :
          /\ bindings' = remove_binding(bindings, resource)
          /\ order_resources' = order_resources \ {resource}
    /\ sent' = {}
    /\ order_last' = "destroy"
    /\ UNCHANGED <<registered, instances, output_order, order_next>>
    /\ UNCHANGED notOrderVars

\* kde_output_order.rs, update_output_order
OutputOrderUpdate ==
    /\ registered = KDE_OUTPUT_ORDER
    /\ \E outputs \in OutputOrders :
          /\ output_order' = outputs
          /\ sent' = broadcast_output_change(bindings, outputs)
    /\ order_last' = "update"
    /\ UNCHANGED <<registered, bindings, instances, order_resources, order_next>>
    /\ UNCHANGED notOrderVars

\* kde_outputorder.rs, GlobalDispatch::bind
OutputorderBind ==
    /\ registered = KDE_OUTPUTORDER
    /\ order_next < MaxOrderBinds
    /\ \E client \in OrderClients :
          LET instance == OrderResource(order_next + 1, client) IN
          /\ sent' = Sent(instance, notify_instance(output_order))
          /\ instances' = instances_insert(instances, client, instance)
          /\ order_resources' = order_resources \cup {instance}
    /\ order_next' = order_next + 1
    /\ order_last' = "bind"
    /\ UNCHANGED <<registered, bindings, output_order>>
    /\ UNCHANGED notOrderVars

\* kde_outputorder.rs, Dispatch::request with Request::Destroy
OutputorderDestroy ==
    /\ registered = KDE_OUTPUTORDER
    /\ \E resource \in order_resources :
          /\ instances' = instances_remove(instances, resource.client)
          /\ order_resources' = order_resources \ {resource}
    /\ sent' = {}
    /\ order_last' = "destroy"
    /\ UNCHANGED <<registered, bindings, output_order, order_next>>
    /\ UNCHANGED notOrderVars

\* kde_outputorder.rs, notify_changes
OutputorderNotifyChanges ==
    /\ registered = KDE_OUTPUTORDER
    /\ \E outputs \in OutputOrders :
          LET order == sorted_names({outputs[i] : i \in 1..Len(outputs)}) IN
          /\ output_order' = order
          /\ sent' = notify_all(instances, order)
    /\ order_last' = "update"
    /\ UNCHANGED <<registered, bindings, instances, order_resources, order_next>>
    /\ UNCHANGED notOrderVars

NextOrder ==
    \/ OutputOrderBind
    \/ OutputOrderDestroy
    \/ OutputOrderUpdate
    \/ OutputorderBind
    \/ OutputorderDestroy
    \/ OutputorderNotifyChanges

SpecOrder == InitOrder /\ [][NextOrder]_vars

\* The complete current output list followed by `done`.
ListThenDone ==
    [i \in 1..(Len(output_order) + 1) |->
        IF i <= Len(output_order) THEN OutputEvent(output_order[i]) ELSE DoneEvent]

\* After a change of the output order every resource that is bound and not
\* destroyed has been sent the list and `done`, and no other resource has
\* been sent anything.
EveryBoundResourceNotified ==
    order_last = "update" =>
        sent = { [resource |-> r, events |-> ListThenDone] : r \in order_resources }

\* C27: every KdeOutputOrderV1 resource that has been bound and not yet
\* destroyed receives the complete current output list followed by `done`
\* on every change of the output order, also a resource of a client that
\* holds a second binding and also after that client destroyed another of
\* its bindings; a destroyed resource receives no further events.
C27_EveryBoundResourceNotified ==
    /\ EveryBoundResourceNotified
    /\ \A s \in sent : s.resource \in order_resources

\* kde_outputorder.rs: a client holds two resources that are bound and not
\* destroyed, the output order changed to a list that is not empty, and the
\* first of the two resources was sent nothing.
C27_SecondBindingShadowsFirst ==
    /\ registered = KDE_OUTPUTORDER
    /\ order_last = "update"
    /\ output_order # <<>>
    /\ \E r1, r2 \in order_resources :
          /\ r1.client = r2.client
          /\ r1.id < r2.id
          /\ \A s \in sent : s.resource # r1
          /\ \E s \in sent : s.resource = r2

\* kde_output_order.rs on its own meets the claim.
C27_VecOfBindingsNotifiesAll ==
    registered = KDE_OUTPUT_ORDER => C27_EveryBoundResourceNotified

(***************************************************************************)
(* Region (src/utils/region.rs): a list of rectangles kept in one of the   *)
(* three shapes of RegionInner.  Rectangles live on a small grid; the      *)
(* Rectangle operations of smithay that region.rs calls are modelled by    *)
(* what they compute.                                                      *)
(***************************************************************************)
\* The coordinates of the grid.
GridCoords == {0, 1, 2}

MaxRegionOps == 2

MaxItems == 2

Rectangle(x, y, w, h) == [x |-> x, y |-> y, w |-> w, h |-> h]

from_extremities(x1, y1, x2, y2) == Rectangle(x1, y1, x2 - x1, y2 - y1)

max_of(a, b) == IF a >= b THEN a ELSE b

min_of(a, b) == IF a <= b THEN a ELSE b

\* Rectangle::overlaps
overlaps(a, b) ==
    /\ a.x < b.x + b.w
    /\ b.x < a.x + a.w
    /\ a.y < b.y + b.h
    /\ b.y < a.y + a.h

\* Rectangle::overlaps_or_touches
overlaps_or_touches(a, b) ==
    /\ a.x <= b.x + b.w
    /\ b.x <= a.x + a.w
    /\ a.y <= b.y + b.h
    /\ b.y <= a.y + a.h

\* Rectangle::intersection
intersection(a, b) ==
    IF ~overlaps_or_touches(a, b)
    THEN None
    ELSE Some(from_extremities(max_of(a.x, b.x), max_of(a.y, b.y),
                               min_of(a.x + a.w, b.x + b.w),
                               min_of(a.y + a.h, b.y + b.h)))

\* Rectangle::contains_rect
contains_rect(a, b) ==
    /\ a.x <= b.x
    /\ a.y <= b.y
    /\ b.x + b.w <= a.x + a.w
    /\ b.y + b.h <= a.y + a.h

\* The rectangle, unless it has no area.
IfNotEmpty(r) == IF r.w > 0 /\ r.h > 0 THEN <<r>> ELSE <<>>

\* What is left of one rectangle when another is cut out of it: the parts
\* above, left of, right of and below the intersection.
subtract_rect_from(item, other) ==
    IF ~overlaps(item, other)
    THEN <<item>>
    ELSE IF contains_rect(other, item)
         THEN <<>>
         ELSE LET i == intersection(item, other)[1] IN
              IfNotEmpty(from_extremities(item.x, item.y, item.x + item.w, i.y))
              \o IfNotEmpty(from_extremities(item.x, i.y, i.x, i.y + i.h))
              \o IfNotEmpty(from_extremities(i.x + i.w, i.y, item.x + item.w, i.y + i.h))
              \o IfNotEmpty(from_extremities(item.x, i.y + i.h, item.x + item.w,
                                             item.y + item.h))

RECURSIVE subtract_from_each(_, _)
subtract_from_each(rects, other) ==
    IF rects = <<>>
    THEN <<>>
    ELSE subtract_rect_from(Head(rects), other) \o subtract_from_each(Tail(rects), other)

RECURSIVE subtract_rects_many(_, _)
\* Rectangle::subtract_rects_many
subtract_rects_many(rects, others) ==
    IF others = <<>>
    THEN rects
    ELSE subtract_rects_many(subtract_from_each(rects, Head(others)), Tail(others))

\* Rectangle::subtract_rects
subtract_rects(rect, others) == subtract_rects_many(<<rect>>, others)

\* The three shapes of RegionInner.
Empty == [kind |-> "Empty", rects |-> <<>>]

Single(rect) == [kind |-> "Single", rects |-> <<rect>>]

Multiple(v) == [kind |-> "Multiple", rects |-> v]

\* RegionInner::iter: the rectangles the RegionIterator yields.
iter(inner) == inner.rects

\* RegionInner::len
RegionInner_len(inner) ==
    IF inner.kind = "Empty" THEN 0
    ELSE IF inner.kind = "Single" THEN 1
    ELSE Len(inner.rects)

\* Region::len
len(self) == RegionInner_len(self)

\* Region::is_empty: `matches!(self.rects, RegionInner::Empty)`
is_empty(self) == self.kind = "Empty"

\* RegionInner::push
push(self, rect) ==
    IF self.kind = "Empty" THEN Single(rect)
    ELSE IF self.kind = "Single" THEN Multiple(<<self.rects[1], rect>>)
    ELSE Multiple(Append(self.rects, rect))

RECURSIVE append(_, _)
\* RegionInner::append: one push per rectangle.
append(self, rects) ==
    IF rects = <<>> THEN self ELSE append(push(self, Head(rects)), Tail(rects))

RECURSIVE insert_by_x(_, _)
\* The place of a rectangle in a list sorted by loc.x, after its equals.
insert_by_x(sorted, rect) ==
    IF sorted = <<>>
    THEN <<rect>>
    ELSE IF rect.x < Head(sorted).x
         THEN <<rect>> \o sorted
         ELSE <<Head(sorted)>> \o insert_by_x(Tail(sorted), rect)

RECURSIVE sort_by_x(_, _)
sort_by_x(sorted, rest) ==
    IF rest = <<>> THEN sorted ELSE sort_by_x(insert_by_x(sorted, Head(rest)), Tail(rest))

\* RegionInner::sort_rects: a Multiple is sorted by loc.x (partial_cmp of
\* two integers is never None), stably.
sort_rects(self) ==
    IF self.kind = "Multiple" THEN Multiple(sort_by_x(<<>>, self.rects)) ELSE self

\* impl FromIterator for RegionInner
RegionInner_from_iter(items) ==
    IF items = <<>> THEN Empty
    ELSE IF Len(items) = 1 THEN Single(items[1])
    ELSE Multiple(items)

\* Region::new
Region_new == Empty

\* Region::from_rects
from_rects(rects) == sort_rects(RegionInner_from_iter(rects))

\* Region::subtract_rect
subtract_rect(self, rect) ==
    sort_rects(RegionInner_from_iter(subtract_rects_many(iter(self), <<rect>>)))

\* Region::add_rect
add_rect(self, rect) ==
    IF ~\E i \in 1..Len(iter(self)) : intersection(iter(self)[i], rect) # None
    THEN sort_rects(push(self, rect))
    ELSE IF \E i \in 1..Len(iter(self)) : contains_rect(iter(self)[i], rect)
         THEN self
         ELSE sort_rects(append(self, subtract_rects(rect, iter(self))))

RECURSIVE add_rects(_, _)
\* `iter.fold(.., |mut acc, curr| { acc.add_rect(curr); acc })`
add_rects(acc, items) ==
    IF items = <<>> THEN acc ELSE add_rects(add_rect(acc, Head(items)), Tail(items))

\* impl FromIterator for Region: items are the rectangles the iterator
\* yields, hint is its size_hint().
from_iter(items, hint) ==
    LET num_elems == unwrap_or(hint.upper, hint.lower) IN
    IF num_elems > 1
    THEN add_rects(Multiple(<<>>), items)
    ELSE IF items = <<>> THEN Empty ELSE Single(items[1])

GridRects ==
    { from_extremities(x1, y1, x2, y2) : x1 \in GridCoords, y1 \in GridCoords,
                                         x2 \in GridCoords, y2 \in GridCoords }

\* The rectangles of the grid and one without area.
Rects == {r \in GridRects : r.w > 0 /\ r.h > 0} \cup {Rectangle(0, 0, 0, 0)}

\* The lists of rectangles handed to from_rects and to collect().
RectLists == UNION { [1..n -> Rects] : n \in 0..MaxItems }

\* The size hints an iterator over n items may give: the lower bound is at
\* most n, the upper bound is absent or at least n.
SizeHints(n) ==
    { [lower |-> lo, upper |-> up] :
        lo \in 0..n, up \in {None} \cup { Some(k) : k \in n..MaxItems } }

InitRegion ==
    /\ IdleParsers
    /\ IdleMerge
    /\ IdleRules
    /\ IdleModKey
    /\ IdleScroll
    /\ IdleKdeWm
    /\ IdleOrder
    /\ region = None
    /\ region_ops = 0
    /\ IdleLayer
    /\ IdleBackend

\* Region::new()
RegionNew ==
    /\ region = None
    /\ region' = Some(Region_new)
    /\ UNCHANGED region_ops
    /\ UNCHANGED notRegionVars

\* Region::from_rects(rects)
RegionFromRects ==
    /\ region = None
    /\ \E rects \in RectLists : region' = Some(from_rects(rects))
    /\ UNCHANGED region_ops
    /\ UNCHANGED notRegionVars

\* iterator.collect::<Region<_, _>>()
RegionFromIter ==
    /\ region = None
    /\ \E items \in RectLists : \E hint \in SizeHints(Len(items)) :
          region' = Some(from_iter(items, hint))
    /\ UNCHANGED region_ops
    /\ UNCHANGED notRegionVars

\* region.add_rect(rect)
RegionAddRect ==
    /\ region # None
    /\ region_ops < MaxRegionOps
    /\ \E rect \in Rects : region' = Some(add_rect(region[1], rect))
    /\ region_ops' = region_ops + 1
    /\ UNCHANGED notRegionVars

\* region.subtract_rect(rect)
RegionSubtractRect ==
    /\ region # None
    /\ region_ops < MaxRegionOps
    /\ \E rect \in Rects : region' = Some(subtract_rect(region[1], rect))
    /\ region_ops' = region_ops + 1
    /\ UNCHANGED notRegionVars

NextRegion ==
    \/ RegionNew
    \/ RegionFromRects
    \/ RegionFromIter
    \/ RegionAddRect
    \/ RegionSubtractRect

SpecRegion == InitRegion /\ [][NextRegion]_vars

\* C28: for every Region reachable through new, from_rects, collect(),
\* add_rect and subtract_rect, is_empty() is true if and only if len() is 0,
\* that is if and only if rects() yields no rectangle.
C28_IsEmptyIffLenZero ==
    region # None =>
        /\ is_empty(region[1]) <=> (len(region[1]) = 0)
        /\ is_empty(region[1]) <=> (iter(region[1]) = <<>>)

\* A Region that is not is_empty() although it holds no rectangle.
C28_EmptyMultiple ==
    /\ region # None
    /\ ~is_empty(region[1])
    /\ len(region[1]) = 0
    /\ iter(region[1]) = <<>>

(***************************************************************************)
(* MappedLayer (src/layer/mapped.rs): the resolved rules of a layer        *)
(* surface, which recompute_layer_rules replaces and which set_blurred,    *)
(* called for a client's blur request, edits in place.  What               *)
(* ResolvedLayerRules::compute returns depends on the configured rules and *)
(* the surface and is an input here.                                       *)
(***************************************************************************)
BlurRule(off, on, x_ray) == [off |-> off, on |-> on, x_ray |-> x_ray]

\* The fields of ResolvedLayerRules that mapped.rs reads.
ResolvedLayerRules ==
    [blur : { BlurRule(off, on, x_ray) :
                off \in BOOLEAN, on \in BOOLEAN, x_ray \in {None, Some(TRUE)} },
     opacity : {None, Some(1)},
     baba_is_float : BOOLEAN]

\* A variant of set_blurred that does not look at rules.blur.off.
set_blurred_ignores_off(self_rules, new_blurred) ==
    [self_rules EXCEPT !.blur.on = new_blurred]

\* MappedLayer::set_blurred
set_blurred(self_rules, new_blurred) ==
    IF ~self_rules.blur.off
    THEN [self_rules EXCEPT !.blur.on = new_blurred]
    ELSE self_rules

\* MappedLayer::recompute_layer_rules: the rules after the call and the
\* value returned, for the new_rules that compute gave.
recompute_layer_rules(self_rules, new_rules) ==
    IF new_rules = self_rules
    THEN [rules |-> self_rules, changed |-> FALSE]
    ELSE [rules |-> new_rules, changed |-> TRUE]

Called(method, new_blurred, before, returned) ==
    Some([method |-> method, new_blurred |-> new_blurred, before |-> before,
          returned |-> returned])

InitLayer ==
    /\ IdleParsers
    /\ IdleMerge
    /\ IdleRules
    /\ IdleModKey
    /\ IdleScroll
    /\ IdleKdeWm
    /\ IdleOrder
    /\ IdleRegion
    /\ rules = None
    /\ computed = None
    /\ last_call = None
    /\ IdleBackend

\* MappedLayer::new with the rules computed for the surface.
LayerNew ==
    /\ rules = None
    /\ \E new_rules \in ResolvedLayerRules :
          /\ rules' = Some(new_rules)
          /\ computed' = Some(new_rules)
          /\ last_call' = Called("new", FALSE, new_rules, FALSE)
    /\ UNCHANGED notLayerVars

\* MappedLayer::set_blurred(new_blurred), for a client's request
LayerSetBlurred ==
    /\ rules # None
    /\ \E new_blurred \in BOOLEAN :
          /\ rules' = Some(set_blurred(rules[1], new_blurred))
          /\ last_call' = Called("set_blurred", new_blurred, rules[1], FALSE)
    /\ UNCHANGED computed
    /\ UNCHANGED notLayerVars

\* MappedLayer::recompute_layer_rules(rules, is_at_startup)
LayerRecomputeRules ==
    /\ rules # None
    /\ \E new_rules \in ResolvedLayerRules :
          LET result == recompute_layer_rules(rules[1], new_rules) IN
          /\ rules' = Some(result.rules)
          /\ computed' = Some(new_rules)
          /\ last_call' = Called("recompute_layer_rules", FALSE, rules[1], result.changed)
    /\ UNCHANGED notLayerVars

NextLayer ==
    \/ LayerNew
    \/ LayerSetBlurred
    \/ LayerRecomputeRules

SpecLayer == InitLayer /\ [][NextLayer]_vars

\* C29: set_blurred(b) leaves the resolved rules as they were when
\* rules.blur.off is set and otherwise changes rules.blur.on to b and
\* nothing else; so after any sequence of set_blurred and
\* recompute_layer_rules calls the rules of a layer with blur off are the
\* rules that were computed for it, with blur.on as computed, and the rules
\* never differ from the computed ones in more than blur.on.
C29_SetBlurredRespectsOff ==
    rules # None =>
        /\ last_call[1].method = "set_blurred" =>
              rules[1] =
                 IF last_call[1].before.blur.off
                 THEN last_call[1].before
                 ELSE [blur |-> BlurRule(FALSE, last_call[1].new_blurred,
                                         last_call[1].before.blur.x_ray),
                       opacity |-> last_call[1].before.opacity,
                       baba_is_float |-> last_call[1].before.baba_is_float]
        /\ rules[1].blur.off => rules[1] = computed[1]
        /\ rules[1].blur.off = computed[1].blur.off
        /\ rules[1].blur.x_ray = computed[1].blur.x_ray
        /\ rules[1].opacity = computed[1].opacity
        /\ rules[1].baba_is_float = computed[1].baba_is_float

\* A client asked for blur on a layer whose rules have blur off and not on:
\* the request changed nothing, the rules are the computed ones.
C29_Witness ==
    /\ rules # None
    /\ last_call[1].method = "set_blurred"
    /\ last_call[1].new_blurred
    /\ last_call[1].before.blur.off
    /\ ~last_call[1].before.blur.on
    /\ ~rules[1].blur.on
    /\ rules[1] = computed[1]

(***************************************************************************)
(* Backend::mod_key (src/backend/mod.rs): the modifier that stands for Mod *)
(* in the binds, by backend and by the mod-key and mod-key-nested settings *)
(* of the input section.                                                   *)
(***************************************************************************)
Backends == {"Tty", "Winit", "Headless"}

ModKeys == {"Ctrl", "Shift", "Alt", "Super", "IsoLevel3Shift", "IsoLevel5Shift"}

\* A variant of Backend::mod_key whose nested default is Alt whatever the
\* host's mod key is.
Backend_mod_key_always_alt(self, input) ==
    IF self = "Winit"
    THEN unwrap_or(input.mod_key_nested, "Alt")
    ELSE unwrap_or(input.mod_key, "Super")

\* Backend::mod_key(&self, config), with config.input
Backend_mod_key(self, input) ==
    IF self = "Winit"
    THEN unwrap_or(input.mod_key_nested,
                   IF input.mod_key = Some("Alt") THEN "Super" ELSE "Alt")
    ELSE unwrap_or(input.mod_key, "Super")

\* The mod_key and mod_key_nested settings a config can hold.
ModKeySettings ==
    [mod_key : {None} \cup { Some(k) : k \in ModKeys },
     mod_key_nested : {None} \cup { Some(k) : k \in ModKeys }]

InitBackend ==
    /\ IdleParsers
    /\ IdleMerge
    /\ IdleRules
    /\ IdleModKey
    /\ IdleScroll
    /\ IdleKdeWm
    /\ IdleOrder
    /\ IdleRegion
    /\ IdleLayer
    /\ mod_key_call = None

\* backend.mod_key(&config)
CallModKey ==
    /\ \E self \in Backends : \E input \in ModKeySettings :
          mod_key_call' = Some([backend |-> self, input |-> input,
                                returned |-> Backend_mod_key(self, input)])
    /\ UNCHANGED notBackendVars

NextBackend == CallModKey

SpecBackend == InitBackend /\ [][NextBackend]_vars

\* The mod key in effect on the host: the configured mod_key, Super if
\* there is none.
HostModKey(input) == IF input.mod_key = None THEN "Super" ELSE input.mod_key[1]

\* C30: on the Winit backend mod_key returns mod_key_nested when it is
\* configured and otherwise a modifier other than the host's mod key: Super
\* when mod_key is Alt, Alt in every other case; on the Tty and Headless
\* backends it returns the configured mod_key, or Super when there is none,
\* whatever mod_key_nested is.
C30_NestedModKeyDiffersFromHost ==
    mod_key_call # None =>
        LET call == mod_key_call[1] IN
        /\ (call.backend = "Winit" /\ call.input.mod_key_nested # None) =>
              call.returned = call.input.mod_key_nested[1]
        /\ (call.backend = "Winit" /\ call.input.mod_key_nested = None) =>
              /\ call.returned # HostModKey(call.input)
              /\ call.input.mod_key = Some("Alt") => call.returned = "Super"
              /\ call.input.mod_key # Some("Alt") => call.returned = "Alt"
        /\ call.backend \in {"Tty", "Headless"} =>
              call.returned = HostModKey(call.input)

\* mod_key was called on the Winit backend with mod_key Alt and no
\* mod_key_nested, and returned Super.
C30_Witness ==
    /\ mod_key_call # None
    /\ mod_key_call[1].backend = "Winit"
    /\ mod_key_call[1].input.mod_key = Some("Alt")
    /\ mod_key_call[1].input.mod_key_nested = None
    /\ mod_key_call[1].returned = "Super"

====
